---- MODULE Spec2Model ----
(***************************************************************************)
(* A model of the meego HTTP server engine (github.com/asaka1234/meego).   *)
(*                                                                         *)
(* Part I  : the router (http_router.go): route registration, lookup, the  *)
(*           result cache and the two RWMutexes that guard them.           *)
(* Part II : the connection task (http_server.go, http_request_parser.go,  *)
(*           http_context.go, http_response_writer.go): parse, dispatch,   *)
(*           write, and the three object pools.                            *)
(*                                                                         *)
(* Strings are sequences of short strings (characters in paths, words and  *)
(* separators on the wire), so that splitting, trimming, searching and     *)
(* concatenation are computed and not assumed.                             *)
(***************************************************************************)
EXTENDS Integers, Sequences, FiniteSets, TLC

\* ------------------------------------------------------------------------
\* Bounds of the model
\* ------------------------------------------------------------------------

\* Total number of routes that are ever registered.
MaxRoutes == 2

\* Capacity of the route cache. The program uses 1024 (NewRouter); the model
\* runs the same code with a capacity small enough for the full flush in
\* putToCache to happen.
cacheSize == 2

\* ------------------------------------------------------------------------
\* Part I. Router
\* ------------------------------------------------------------------------

VARIABLES
    routes,        \* Router.routes: method -> sequence of Route
    routeCache,    \* Router.routeCache: set of entries, at most one per key
    locks,         \* Router.mu and Router.cacheMu (sync.RWMutex)
    pc,            \* position of each caller inside AddRoute(s)/FindRoute
    call,          \* arguments of the call a caller is in
    snap,          \* FindRoute's locals: the route list it read, its match
    res,           \* what the caller's last FindRoute returned
    issued,        \* number of handlers handed to AddRoute(s) so far
    completedLen,  \* history: per method, len(routes[m]) when the latest
                   \* registration for m returned
    missed         \* history: the latest (method, path) that resolved to
                   \* not-found, with the length of the method's route
                   \* list when it first did

routerVars == <<routes, routeCache, locks, pc, call, snap, res, issued,
                completedLen, missed>>

VARIABLES
    task,                \* per worker: the connection task it is running
    wire,                \* per worker: what its connection has received
                         \* from the server, and whether it is closed
    requestPool,         \* pooled HTTPRequest objects
    contextPool,         \* pooled Context objects
    responseWriterPool,  \* pooled ResponseWriter objects
    requests,            \* the HTTPRequest objects
    contexts,            \* the Context objects
    writers,             \* the ResponseWriter objects
    accepted,            \* number of connections accepted so far
    carried              \* history: the objects that have held data of a
                         \* request since they were allocated

connVars == <<task, wire, requestPool, contextPool, responseWriterPool,
              requests, contexts, writers, accepted, carried>>

VARIABLES
    serverDone,          \* HTTPServer.serverCtx is cancelled
    antsPool,            \* HTTPServer.pool: the tasks it runs, and whether
                         \* it has been released
    acceptLoop,          \* position of Start() in its accept loop, and the
                         \* connection it has accepted and not yet submitted
    shutdownCall,        \* position of a call of Shutdown()
    conns,               \* per client connection: where it stands
    parsing,             \* a parser on a byte source, outside any server
    pipeline             \* the middlewares of a server, a route of it and
                         \* the run of its handler chain for one request

srvVars == <<serverDone, antsPool, acceptLoop, shutdownCall, conns, parsing,
             pipeline>>

vars == <<routerVars, connVars, srvVars>>

Procs == {"p1", "p2", "p3"}

Nil == "nil"

\* The nil HandlerFunc. Registered handlers are 1, 2, ... in the order in
\* which they were handed to the router.
NilHandler == 0

EmptyParams == [n \in {} |-> <<>>]

\* ---- strings ------------------------------------------------------------

RECURSIVE TrimLeftSlash(_)
TrimLeftSlash(s) ==
    IF s # <<>> /\ Head(s) = "/" THEN TrimLeftSlash(Tail(s)) ELSE s

RECURSIVE TrimRightSlash(_)
TrimRightSlash(s) ==
    IF s # <<>> /\ s[Len(s)] = "/"
    THEN TrimRightSlash(SubSeq(s, 1, Len(s) - 1))
    ELSE s

\* strings.Trim(s, "/")
TrimSlash(s) == TrimRightSlash(TrimLeftSlash(s))

\* The two loops of splitPathFast: cut at every '/'.
RECURSIVE SplitSlash(_)
SplitSlash(p) ==
    LET idx == {i \in 1..Len(p) : p[i] = "/"} IN
    IF idx = {} THEN <<p>>
    ELSE LET i == CHOOSE j \in idx : \A k \in idx : j <= k
         IN <<SubSeq(p, 1, i - 1)>> \o SplitSlash(SubSeq(p, i + 1, Len(p)))

splitPathFast(path) ==
    IF path = <<>> \/ path = <<"/">> THEN << <<>> >>
    ELSE LET start == IF path[1] = "/" THEN 1 ELSE 0
             end   == IF path[Len(path)] = "/" THEN Len(path) - 1 ELSE Len(path)
         IN IF start >= end THEN << <<>> >>
            ELSE SplitSlash(SubSeq(path, start + 1, end))

\* ---- Route ----------------------------------------------------------------

\* The placeholder parsePath stores for a parameter segment.
Marker == <<":">>

RECURSIVE parseSegments(_, _, _)
parseSegments(segments, segs, names) ==
    IF segments = <<>> THEN [segments |-> segs, paramNames |-> names]
    ELSE LET segment == Head(segments) IN
         IF Len(segment) > 1 /\ segment[1] = ":"
         THEN parseSegments(Tail(segments), Append(segs, Marker),
                            Append(names, Tail(segment)))
         ELSE parseSegments(Tail(segments), Append(segs, segment), names)

\* Route.parsePath, applied to a route under construction.
parsePath(method, path, handler) ==
    LET trimmed == TrimSlash(path)
        parsed  == IF trimmed = <<>>
                   THEN [segments |-> << <<>> >>, paramNames |-> <<>>]
                   ELSE parseSegments(splitPathFast(trimmed), <<>>, <<>>)
    IN [method |-> method, path |-> path, handler |-> handler,
        segments |-> parsed.segments, paramNames |-> parsed.paramNames]

NoMatch == [ok |-> FALSE, params |-> EmptyParams]

RECURSIVE matchLoop(_, _, _, _, _)
matchLoop(r, pathSegments, i, params, paramIndex) ==
    IF i > Len(r.segments)
    THEN IF paramIndex # Len(r.paramNames) THEN NoMatch
         ELSE [ok |-> TRUE, params |-> params]
    ELSE IF r.segments[i] = Marker
    THEN IF paramIndex < Len(r.paramNames)
         THEN matchLoop(r, pathSegments, i + 1,
                        (r.paramNames[paramIndex + 1] :> pathSegments[i]) @@ params,
                        paramIndex + 1)
         ELSE NoMatch
    ELSE IF r.segments[i] # pathSegments[i] THEN NoMatch
    ELSE matchLoop(r, pathSegments, i + 1, params, paramIndex)

\* A matchFast for which a segment that begins with '*' takes the rest of
\* the path.
matchFast_wildcard(r, pathSegments) ==
    IF \E i \in 1..Len(r.segments) :
          /\ r.segments[i] # <<>> /\ r.segments[i][1] = "*"
          /\ Len(pathSegments) >= i
          /\ SubSeq(r.segments, 1, i - 1) = SubSeq(pathSegments, 1, i - 1)
    THEN [ok |-> TRUE, params |-> EmptyParams]
    ELSE IF Len(r.segments) # Len(pathSegments) THEN NoMatch
    ELSE matchLoop(r, pathSegments, 1, EmptyParams, 0)

\* Route.matchFast: nil (ok = FALSE) or the params map.
matchFast(r, pathSegments) ==
    IF Len(r.segments) # Len(pathSegments) THEN NoMatch
    ELSE matchLoop(r, pathSegments, 1, EmptyParams, 0)

\* ---- Router: pure parts ---------------------------------------------------

NotFound == [handler |-> NilHandler, params |-> EmptyParams]

\* The loop of FindRoute over the route list it read: the first route that
\* matches, in list order.
scanRoutes(list, path) ==
    LET pathSegments == splitPathFast(path)
        hits == {i \in 1..Len(list) : matchFast(list[i], pathSegments).ok}
    IN IF hits = {} THEN NotFound
       ELSE LET i == CHOOSE j \in hits : \A k \in hits : j <= k
            IN [handler |-> list[i].handler,
                params  |-> matchFast(list[i], pathSegments).params]

\* cacheKey := method + ":" + path
cacheKey(method, path) == <<method, ":">> \o path

\* A registration that puts the route in front of the others.
appendRoute_front(list, route) == <<route>> \o list

\* r.routes[method] = append(r.routes[method], route)
appendRoute(list, route) == Append(list, route)

\* A putToCache that never discards.
putToCache_keepAll(cache, key, entry) == {e \in cache : e.key # key} \cup {entry}

\* The body of putToCache, under cacheMu.
putToCache(cache, key, entry) ==
    LET kept == IF Cardinality(cache) >= cacheSize THEN {} ELSE cache
    IN {e \in kept : e.key # key} \cup {entry}

\* The body of clearCache, under the mutex it takes.
clearCache(cache) == {}

\* clearCache written against the route-list mutex, which AddRoute already
\* holds when it calls clearCache.
clearCacheMutex_mu == "mu"

\* The mutex clearCache takes.
clearCacheMutex == "cacheMu"

\* ---- sync.RWMutex ---------------------------------------------------------

FreeLock == [writer |-> Nil, readers |-> {}, pending |-> {}]

\* A reader is admitted when no writer holds the mutex and none is waiting.
CanRLock(l) == locks[l].writer = Nil /\ locks[l].pending = {}

\* A waiting writer is admitted when the mutex is free of readers and writers.
CanLock(l, p) ==
    /\ p \in locks[l].pending
    /\ locks[l].writer = Nil
    /\ locks[l].readers = {}

RequestLock(ls, l, p) == [ls EXCEPT ![l].pending = @ \cup {p}]
AcquireLock(ls, l, p) == [ls EXCEPT ![l].pending = @ \ {p}, ![l].writer = p]
ReleaseLock(ls, l)    == [ls EXCEPT ![l].writer = Nil]
AcquireRLock(ls, l, p) == [ls EXCEPT ![l].readers = @ \cup {p}]
ReleaseRLock(ls, l, p) == [ls EXCEPT ![l].readers = @ \ {p}]

\* ---- Router: state --------------------------------------------------------

Methods == {"GET", "POST"}

NoCall == [op |-> Nil, method |-> Nil, path |-> <<>>, batch |-> <<>>]
NoSnap == [list |-> <<>>, hit |-> NotFound]
NoRes  == [done |-> FALSE, method |-> Nil, path |-> <<>>,
           handler |-> NilHandler, params |-> EmptyParams]

RouterInit ==
    /\ routes = [m \in Methods |-> <<>>]
    /\ routeCache = {}
    /\ locks = [l \in {"mu", "cacheMu"} |-> FreeLock]
    /\ pc = [p \in Procs |-> "idle"]
    /\ call = [p \in Procs |-> NoCall]
    /\ snap = [p \in Procs |-> NoSnap]
    /\ res = [p \in Procs |-> NoRes]
    /\ issued = 0
    /\ completedLen = [m \in Methods |-> 0]
    /\ missed = {}

\* ---- AddRoute / AddRoutes -------------------------------------------------

\* AddRoute(method, path, handler) is called and reaches r.mu.Lock().
AddRouteCall(p, method, path) ==
    /\ pc[p] = "idle"
    /\ issued < MaxRoutes
    /\ issued' = issued + 1
    /\ call' = [call EXCEPT ![p] = [op |-> "AddRoute", method |-> method,
                                    path |-> <<>>,
                                    batch |-> << <<path, issued + 1>> >>]]
    /\ locks' = RequestLock(locks, "mu", p)
    /\ pc' = [pc EXCEPT ![p] = "add_muLock"]
    /\ res' = [res EXCEPT ![p] = NoRes]
    /\ UNCHANGED <<routes, routeCache, snap, completedLen, missed>>
    /\ UNCHANGED <<connVars, srvVars>>

\* AddRoutes(method, routes) is called with a two-entry map and reaches
\* r.mu.Lock(). Go iterates a map in an unspecified order: `first` is the
\* path the loop happens to visit first.
AddRoutesCall(p, method, first, second) ==
    /\ pc[p] = "idle"
    /\ first # second
    /\ issued + 2 <= MaxRoutes
    /\ issued' = issued + 2
    /\ \E h \in {issued + 1, issued + 2} :
         call' = [call EXCEPT ![p] =
                    [op |-> "AddRoutes", method |-> method, path |-> <<>>,
                     batch |-> << <<first, h>>,
                                  <<second, 2 * issued + 3 - h>> >>]]
    /\ locks' = RequestLock(locks, "mu", p)
    /\ pc' = [pc EXCEPT ![p] = "add_muLock"]
    /\ res' = [res EXCEPT ![p] = NoRes]
    /\ UNCHANGED <<routes, routeCache, snap, completedLen, missed>>
    /\ UNCHANGED <<connVars, srvVars>>

\* r.mu.Lock() returns.
AddRouteLockMu(p) ==
    /\ pc[p] = "add_muLock"
    /\ CanLock("mu", p)
    /\ locks' = AcquireLock(locks, "mu", p)
    /\ pc' = [pc EXCEPT ![p] = "add_append"]
    /\ UNCHANGED <<routes, routeCache, call, snap, res, issued, completedLen,
                   missed>>
    /\ UNCHANGED <<connVars, srvVars>>

RECURSIVE appendBatch(_, _, _)
appendBatch(list, method, batch) ==
    IF batch = <<>> THEN list
    ELSE appendBatch(appendRoute(list, parsePath(method, Head(batch)[1],
                                                 Head(batch)[2])),
                     method, Tail(batch))

\* Under r.mu: parsePath and append for each route of the call; then
\* clearCache() is entered and reaches its Lock().
AddRouteAppend(p) ==
    /\ pc[p] = "add_append"
    /\ routes' = [routes EXCEPT ![call[p].method] =
                     appendBatch(@, call[p].method, call[p].batch)]
    /\ locks' = RequestLock(locks, clearCacheMutex, p)
    /\ pc' = [pc EXCEPT ![p] = "add_cacheLock"]
    /\ UNCHANGED <<routeCache, call, snap, res, issued, completedLen, missed>>
    /\ UNCHANGED <<connVars, srvVars>>

\* clearCache: Lock() returns.
AddRouteLockCache(p) ==
    /\ pc[p] = "add_cacheLock"
    /\ CanLock(clearCacheMutex, p)
    /\ locks' = AcquireLock(locks, clearCacheMutex, p)
    /\ pc' = [pc EXCEPT ![p] = "add_clear"]
    /\ UNCHANGED <<routes, routeCache, call, snap, res, issued, completedLen,
                   missed>>
    /\ UNCHANGED <<connVars, srvVars>>

\* clearCache: delete every key, deferred Unlock().
AddRouteClear(p) ==
    /\ pc[p] = "add_clear"
    /\ routeCache' = clearCache(routeCache)
    /\ locks' = ReleaseLock(locks, clearCacheMutex)
    /\ pc' = [pc EXCEPT ![p] = "add_unlock"]
    /\ UNCHANGED <<routes, call, snap, res, issued, completedLen, missed>>
    /\ UNCHANGED <<connVars, srvVars>>

\* Deferred r.mu.Unlock(); AddRoute(s) returns.
AddRouteReturn(p) ==
    /\ pc[p] = "add_unlock"
    /\ locks' = ReleaseLock(locks, "mu")
    /\ completedLen' = [completedLen EXCEPT ![call[p].method] =
                           Len(routes[call[p].method])]
    /\ pc' = [pc EXCEPT ![p] = "idle"]
    /\ call' = [call EXCEPT ![p] = NoCall]
    /\ UNCHANGED <<routes, routeCache, snap, res, issued, missed>>
    /\ UNCHANGED <<connVars, srvVars>>

\* ---- FindRoute ------------------------------------------------------------

\* FindRoute(method, path) is called and reaches getFromCache's RLock().
FindRouteCall(p, method, path) ==
    /\ pc[p] = "idle"
    /\ call' = [call EXCEPT ![p] = [op |-> "FindRoute", method |-> method,
                                    path |-> path, batch |-> <<>>]]
    /\ pc' = [pc EXCEPT ![p] = "find_getRLock"]
    /\ res' = [res EXCEPT ![p] = NoRes]
    /\ UNCHANGED <<routes, routeCache, locks, snap, issued, completedLen,
                   missed>>
    /\ UNCHANGED <<connVars, srvVars>>

\* getFromCache: r.cacheMu.RLock() returns.
GetFromCacheRLock(p) ==
    /\ pc[p] = "find_getRLock"
    /\ CanRLock("cacheMu")
    /\ locks' = AcquireRLock(locks, "cacheMu", p)
    /\ pc' = [pc EXCEPT ![p] = "find_getRead"]
    /\ UNCHANGED <<routes, routeCache, call, snap, res, issued, completedLen,
                   missed>>
    /\ UNCHANGED <<connVars, srvVars>>

Returned(p, result) ==
    [done |-> TRUE, method |-> call[p].method, path |-> call[p].path,
     handler |-> result.handler, params |-> result.params]

\* History: the latest (method, path) that resolved to not-found, and the
\* length of the route list when it first did.
NoteMiss(p) ==
    IF \E x \in missed : x.method = call[p].method /\ x.path = call[p].path
    THEN missed
    ELSE {[method |-> call[p].method, path |-> call[p].path,
           len |-> Len(routes[call[p].method])]}

\* getFromCache reads the map and unlocks; on a hit FindRoute returns the
\* memoized result.
GetFromCacheRead(p) ==
    /\ pc[p] = "find_getRead"
    /\ locks' = ReleaseRLock(locks, "cacheMu", p)
    /\ LET found == {e \in routeCache :
                       e.key = cacheKey(call[p].method, call[p].path)}
       IN IF found # {}
          THEN /\ res' = [res EXCEPT ![p] =
                            Returned(p, CHOOSE e \in found : TRUE)]
               /\ pc' = [pc EXCEPT ![p] = "idle"]
               /\ call' = [call EXCEPT ![p] = NoCall]
          ELSE /\ pc' = [pc EXCEPT ![p] = "find_muRLock"]
               /\ UNCHANGED <<res, call>>
    /\ UNCHANGED <<routes, routeCache, snap, issued, completedLen, missed>>
    /\ UNCHANGED <<connVars, srvVars>>

\* r.mu.RLock() returns.
FindRouteRLock(p) ==
    /\ pc[p] = "find_muRLock"
    /\ CanRLock("mu")
    /\ locks' = AcquireRLock(locks, "mu", p)
    /\ pc' = [pc EXCEPT ![p] = "find_muRead"]
    /\ UNCHANGED <<routes, routeCache, call, snap, res, issued, completedLen,
                   missed>>
    /\ UNCHANGED <<connVars, srvVars>>

\* routes, exists := r.routes[method]; r.mu.RUnlock(); then the scan of the
\* list that was read. A miss returns (nil, nil) without touching the cache;
\* a match goes on to putToCache and reaches its Lock().
FindRouteScan(p) ==
    /\ pc[p] = "find_muRead"
    /\ LET list == routes[call[p].method]
           hit  == IF list = <<>> THEN NotFound
                   ELSE scanRoutes(list, call[p].path)
       IN IF hit.handler = NilHandler
          THEN /\ locks' = ReleaseRLock(locks, "mu", p)
               /\ res' = [res EXCEPT ![p] = Returned(p, NotFound)]
               /\ missed' = NoteMiss(p)
               /\ pc' = [pc EXCEPT ![p] = "idle"]
               /\ call' = [call EXCEPT ![p] = NoCall]
               /\ UNCHANGED snap
          ELSE /\ locks' = RequestLock(ReleaseRLock(locks, "mu", p),
                                       "cacheMu", p)
               /\ snap' = [snap EXCEPT ![p] = [list |-> list, hit |-> hit]]
               /\ pc' = [pc EXCEPT ![p] = "find_putLock"]
               /\ UNCHANGED <<res, call, missed>>
    /\ UNCHANGED <<routes, routeCache, issued, completedLen>>
    /\ UNCHANGED <<connVars, srvVars>>

\* putToCache: r.cacheMu.Lock() returns.
PutToCacheLock(p) ==
    /\ pc[p] = "find_putLock"
    /\ CanLock("cacheMu", p)
    /\ locks' = AcquireLock(locks, "cacheMu", p)
    /\ pc' = [pc EXCEPT ![p] = "find_putWrite"]
    /\ UNCHANGED <<routes, routeCache, call, snap, res, issued, completedLen,
                   missed>>
    /\ UNCHANGED <<connVars, srvVars>>

\* putToCache stores the result and unlocks; FindRoute returns it. The entry
\* also records, as history, the method and the length of the route list the
\* result was computed from, and whether the cache was at capacity.
PutToCacheWrite(p) ==
    /\ pc[p] = "find_putWrite"
    /\ routeCache' = putToCache(routeCache,
                        cacheKey(call[p].method, call[p].path),
                        [key |-> cacheKey(call[p].method, call[p].path),
                         handler |-> snap[p].hit.handler,
                         params |-> snap[p].hit.params,
                         method |-> call[p].method,
                         ver |-> Len(snap[p].list),
                         flushed |-> Cardinality(routeCache) >= cacheSize])
    /\ locks' = ReleaseLock(locks, "cacheMu")
    /\ res' = [res EXCEPT ![p] = Returned(p, snap[p].hit)]
    /\ snap' = [snap EXCEPT ![p] = NoSnap]
    /\ pc' = [pc EXCEPT ![p] = "idle"]
    /\ call' = [call EXCEPT ![p] = NoCall]
    /\ UNCHANGED <<routes, issued, completedLen, missed>>
    /\ UNCHANGED <<connVars, srvVars>>

\* One step of a call that caller p is in.
RouterStep(p) ==
    \/ AddRouteLockMu(p)
    \/ AddRouteAppend(p)
    \/ AddRouteLockCache(p)
    \/ AddRouteClear(p)
    \/ AddRouteReturn(p)
    \/ GetFromCacheRLock(p)
    \/ GetFromCacheRead(p)
    \/ FindRouteRLock(p)
    \/ FindRouteScan(p)
    \/ PutToCacheLock(p)
    \/ PutToCacheWrite(p)

\* ------------------------------------------------------------------------
\* Part II. Wire format, parser, pools and the connection task
\* ------------------------------------------------------------------------

\* ---- text ---------------------------------------------------------------
\* A text is a sequence of tokens: separators (" ", ":", "/", "?", CR, LF,
\* the quote) and words that no operation of the program looks inside.

SP == " "
CR == "CR"
LF == "LF"
QUOTE == "\""
CRLF == <<CR, LF>>

EmptyMap == [k \in {} |-> <<>>]

\* The words of a sentence, separated by single spaces.
RECURSIVE Words(_)
Words(ws) ==
    IF Len(ws) <= 1 THEN ws
    ELSE <<Head(ws), SP>> \o Words(Tail(ws))

\* strings.Contains
Contains(s, sub) ==
    \E i \in 1..(Len(s) - Len(sub) + 1) : SubSeq(s, i, i + Len(sub) - 1) = sub

\* Words that exist in both letter cases in the model's texts.
CasePairs ==
    { <<"GET", "get">>, <<"POST", "post">>, <<"FOO", "foo">>,
      <<"TIMEOUT", "timeout">>, <<"EOF", "eof">>, <<"HTTP", "http">>,
      <<"HTTP/1.1", "http/1.1">>, <<"Chunked", "chunked">>,
      <<"Content-Length", "content-length">> }

toLowerToken(t) ==
    IF \E c \in CasePairs : c[1] = t
    THEN (CHOOSE c \in CasePairs : c[1] = t)[2] ELSE t

toUpperToken(t) ==
    IF \E c \in CasePairs : c[2] = t
    THEN (CHOOSE c \in CasePairs : c[2] = t)[1] ELSE t

\* strings.ToLower / strings.ToUpper
ToLower(s) == [i \in 1..Len(s) |-> toLowerToken(s[i])]
ToUpper(s) == [i \in 1..Len(s) |-> toUpperToken(s[i])]

\* bytes.Split(s, sep) / strings.Split
\* The one element of a one-element set: { e(x) : x \in {v} } evaluates v once
\* and e on its value.
Only(S) == CHOOSE x \in S : TRUE

\* bytes.IndexByte / strings.Index for one token, counted from 1; 0 when
\* the token does not occur.
IndexOf(s, tok) ==
    IF \A i \in 1..Len(s) : s[i] # tok THEN 0
    ELSE CHOOSE i \in 1..Len(s) :
            s[i] = tok /\ \A j \in 1..(i - 1) : s[j] # tok

\* bytes.Split(s, sep) / strings.Split
RECURSIVE Split(_, _)
Split(s, sep) ==
    Only({ IF i = 0 THEN <<s>>
           ELSE Only({ <<SubSeq(s, 1, i - 1)>> \o Split(rest, sep) :
                       rest \in {SubSeq(s, i + 1, Len(s))} }) :
           i \in {IndexOf(s, sep)} })

\* strings.TrimSpace: what lies between the first and the last token that
\* is not a space.
TrimSpace(s) ==
    LET keep == {i \in 1..Len(s) : s[i] # SP} IN
    IF keep = {} THEN <<>>
    ELSE SubSeq(s, CHOOSE i \in keep : \A j \in keep : i <= j,
                   CHOOSE i \in keep : \A j \in keep : i >= j)

\* fmt's %q
Quote(s) == <<QUOTE>> \o s \o <<QUOTE>>

Digits == <<"0", "1", "2", "3", "4", "5", "6", "7", "8", "9">>
HexLetters == <<"a", "b", "c", "d", "e", "f">>

DigitValue(t) == (CHOOSE i \in 1..10 : Digits[i] = t) - 1
IsDigit(t) == \E i \in 1..10 : Digits[i] = t

IsHexDigit(t) == IsDigit(t) \/ \E i \in 1..6 : HexLetters[i] = t
HexValue(t) ==
    IF IsDigit(t) THEN DigitValue(t)
    ELSE 9 + (CHOOSE i \in 1..6 : HexLetters[i] = t)

RECURSIVE foldDigits(_, _, _)
foldDigits(s, base, acc) ==
    IF s = <<>> THEN acc
    ELSE foldDigits(Tail(s), base, acc * base + HexValue(Head(s)))

\* ---- int64 -----------------------------------------------------------------
\* A 64-bit integer in two's complement as four limbs of 16 bits, the most
\* significant first. Go's int is 64 bits wide on the builds modelled here,
\* and its addition wraps around.

Limb == 256 * 256

Int64Zero == <<0, 0, 0, 0>>

\* x + y modulo 2^64
add64(x, y) ==
    LET s4 == x[4] + y[4]
        s3 == x[3] + y[3] + (s4 \div Limb)
        s2 == x[2] + y[2] + (s3 \div Limb)
        s1 == x[1] + y[1] + (s2 \div Limb)
    IN <<s1 % Limb, s2 % Limb, s3 % Limb, s4 % Limb>>

\* -x modulo 2^64
negate64(x) ==
    add64(<<Limb - 1 - x[1], Limb - 1 - x[2], Limb - 1 - x[3], Limb - 1 - x[4]>>,
          <<0, 0, 0, 1>>)

isNegative64(x) == x[1] >= Limb \div 2

\* The int64 of an integer of the model.
int64Of(n) ==
    IF n >= 0 THEN <<0, 0, n \div Limb, n % Limb>>
    ELSE negate64(<<0, 0, (0 - n) \div Limb, (0 - n) % Limb>>)

\* Whether x lies in the range of the model's integers (within 31 bits),
\* and then its value.
isSmall64(x) ==
    \/ x[1] = 0 /\ x[2] = 0 /\ x[3] < Limb \div 2
    \/ x[1] = Limb - 1 /\ x[2] = Limb - 1 /\ x[3] >= Limb \div 2

smallOf64(x) ==
    IF isNegative64(x)
    THEN 0 - Only({ m[3] * Limb + m[4] : m \in {negate64(x)} })
    ELSE x[3] * Limb + x[4]

\* x > n for an integer n >= 0 of the model
greater64(x, n) ==
    /\ ~isNegative64(x)
    /\ (~isSmall64(x) \/ smallOf64(x) > n)

\* The magnitude of a hexadecimal numeral of at most 16 digits.
RECURSIVE hexToInt64(_, _)
hexToInt64(digits, acc) ==
    IF digits = <<>> THEN acc
    ELSE LET d  == HexValue(Head(digits))
             m4 == acc[4] * 16 + d
             m3 == acc[3] * 16 + (m4 \div Limb)
             m2 == acc[2] * 16 + (m3 \div Limb)
             m1 == acc[1] * 16 + (m2 \div Limb)
         IN hexToInt64(Tail(digits), <<m1 % Limb, m2 % Limb, m3 % Limb, m4 % Limb>>)

\* x divided by ten, for x >= 0: quotient and remainder.
divTen64(x) ==
    LET t1 == x[1]
        t2 == (t1 % 10) * Limb + x[2]
        t3 == (t2 % 10) * Limb + x[3]
        t4 == (t3 % 10) * Limb + x[4]
    IN [q |-> <<t1 \div 10, t2 \div 10, t3 \div 10, t4 \div 10>>, r |-> t4 % 10]

\* fmt's %d of an int
RECURSIVE decimal64(_)
decimal64(x) ==
    IF isNegative64(x) THEN <<"-">> \o decimal64(negate64(x))
    ELSE Only({ IF dm.q = Int64Zero THEN <<Digits[dm.r + 1]>>
                ELSE decimal64(dm.q) \o <<Digits[dm.r + 1]>> :
                dm \in {divTen64(x)} })

\* The digits of a numeral after its leading zeros.
Significant(digits) ==
    LET nz == {i \in 1..Len(digits) : digits[i] # "0"} IN
    IF nz = {} THEN <<>>
    ELSE SubSeq(digits, CHOOSE i \in nz : \A j \in nz : i <= j, Len(digits))

\* The longest numeral of a base that can lie inside 64 bits: 2^63 - 1 has
\* 19 decimal and 16 hexadecimal digits.
MaxInt64Digits(base) == IF base = 10 THEN 19 ELSE 16

\* The number parser shared by strconv.Atoi and strconv.ParseInt(s, 16, 64):
\* an optional sign, then at least one digit of the base; a value outside 64
\* bits is a range error. A hexadecimal numeral of more than seven
\* significant digits is held in limbs (wide) and its value is int64; the
\* decimal numerals of the model have either at most eight significant
\* digits or more than fit in 64 bits.
parseSigned(s, base) ==
    LET signed == s # <<>> /\ Head(s) \in {"+", "-"}
        digits == IF signed THEN Tail(s) ELSE s
        valid  == /\ digits # <<>>
                  /\ \A i \in 1..Len(digits) :
                        IF base = 10 THEN IsDigit(digits[i])
                        ELSE IsHexDigit(digits[i])
        neg    == signed /\ Head(s) = "-"
        sig    == IF valid THEN Significant(digits) ELSE <<>>
        long   == Len(sig) > MaxInt64Digits(base)
        wide   == valid /\ ~long /\ base = 16 /\ Len(sig) > 7
        mag64  == IF wide THEN hexToInt64(sig, Int64Zero) ELSE Int64Zero
        range  == \/ valid /\ long
                  \/ /\ wide /\ isNegative64(mag64)
                     /\ ~(neg /\ mag64 = <<Limb \div 2, 0, 0, 0>>)
        mag    == IF valid /\ ~range /\ ~wide THEN foldDigits(digits, base, 0)
                  ELSE 0
        val    == IF neg THEN 0 - mag ELSE mag
    IN IF ~valid \/ range
       THEN [ok |-> FALSE, val |-> 0, wide |-> FALSE, int64 |-> Int64Zero]
       ELSE [ok |-> TRUE, val |-> val, wide |-> wide,
             int64 |-> IF ~wide THEN int64Of(val)
                       ELSE IF neg THEN negate64(mag64) ELSE mag64]

\* strconv.Atoi
Atoi(s) == parseSigned(s, 10)

\* strconv.ParseInt(s, 16, 64)
ParseInt16(s) == parseSigned(s, 16)

\* strconv.Itoa / fmt's %d
RECURSIVE Itoa(_)
Itoa(n) ==
    IF n < 0 THEN <<"-">> \o Itoa(0 - n)
    ELSE IF n < 10 THEN <<Digits[n + 1]>>
    ELSE Itoa(n \div 10) \o <<Digits[(n % 10) + 1]>>

\* strconv.FormatInt(n, 16) / fmt's %x, for n >= 0
RECURSIVE FormatHex(_)
FormatHex(n) ==
    LET d == n % 16
        t == IF d < 10 THEN Digits[d + 1] ELSE HexLetters[d - 9]
    IN IF n < 16 THEN <<t>> ELSE FormatHex(n \div 16) \o <<t>>

\* ---- errors -------------------------------------------------------------
\* An error value: which value it is (only io.EOF is ever compared by
\* identity), its text, and, as history, whether it came from the transport
\* or from the grammar of the message.

NoErr == [ident |-> "nil", msg |-> <<>>, cause |-> "none"]

ioEOF == [ident |-> "io.EOF", msg |-> <<"EOF">>, cause |-> "transport"]

ioErrUnexpectedEOF ==
    [ident |-> "io.ErrUnexpectedEOF", msg |-> Words(<<"unexpected", "EOF">>),
     cause |-> "transport"]

netTimeout ==
    [ident |-> "net.OpError",
     msg |-> Words(<<"read", "tcp">>) \o <<":", SP>> \o Words(<<"i/o", "timeout">>),
     cause |-> "transport"]

netReset ==
    [ident |-> "net.OpError",
     msg |-> Words(<<"read", "tcp">>) \o <<":", SP>>
               \o Words(<<"connection", "reset", "by", "peer">>),
     cause |-> "transport"]

\* errors created with fmt.Errorf out of a text: a new value.
grammarError(msg) == [ident |-> "errorString", msg |-> msg, cause |-> "grammar"]

\* fmt.Errorf("<prefix>: %v", err): a new value with err's text appended.
wrapError(prefix, err) ==
    [ident |-> "errorString", msg |-> prefix \o <<":", SP>> \o err.msg,
     cause |-> err.cause]

\* ---- the byte source ------------------------------------------------------
\* What the connection delivers: the tokens of `stream`, then `end`, the
\* outcome of a read when nothing is left (peer closed, deadline, reset).

\* The cap on a body, in bytes: 10*1024*1024.
MaxBodyBytes == 10 * 1024 * 1024

\* A token of a body counts as one byte, except BLOCK: a run of 10 MiB of
\* payload bytes, none of them CR or LF.
BLOCK == "[10 MiB]"

\* len() of a byte slice
ByteLen(s) ==
    Len(s) + (MaxBodyBytes - 1) * Cardinality({i \in 1..Len(s) : s[i] = BLOCK})

\* The tokens that make the first n bytes of s. No read of the model ends
\* inside a BLOCK; the evaluation stops if one does.
Prefix(s, n) == CHOOSE k \in 0..Len(s) : ByteLen(SubSeq(s, 1, k)) = n

Ends == {"EOF", "timeout", "reset"}

readError(end) ==
    CASE end = "EOF" -> ioEOF
      [] end = "timeout" -> netTimeout
      [] OTHER -> netReset

\* HTTPParser.readLineFast on bufio.Reader.ReadLine: the line up to LF with
\* CR LF removed, or what is left before the read fails; an error only when
\* nothing is left. A trailing CR that remains is removed as well.
readLineFast(stream, end) ==
    IF stream = <<>>
    THEN [err |-> readError(end), line |-> <<>>, rest |-> <<>>]
    ELSE Only({
         LET raw  == IF nl = 0 THEN stream ELSE SubSeq(stream, 1, nl - 1)
             rest == IF nl = 0 THEN <<>> ELSE SubSeq(stream, nl + 1, Len(stream))
             buf  == IF nl # 0 /\ raw # <<>> /\ raw[Len(raw)] = CR
                     THEN SubSeq(raw, 1, Len(raw) - 1) ELSE raw
             line == IF buf # <<>> /\ buf[Len(buf)] = CR
                     THEN SubSeq(buf, 1, Len(buf) - 1) ELSE buf
         IN [err |-> NoErr, line |-> line, rest |-> rest] :
         nl \in {IndexOf(stream, LF)} })

\* io.ReadFull(p.reader, buf) with len(buf) = n.
readFull(stream, end, n) ==
    IF ByteLen(stream) >= n
    THEN Only({ [err |-> NoErr, data |-> SubSeq(stream, 1, k),
                 rest |-> SubSeq(stream, k + 1, Len(stream))] :
                k \in {Prefix(stream, n)} })
    ELSE [err |-> IF stream # <<>> /\ end = "EOF" THEN ioErrUnexpectedEOF
                  ELSE readError(end),
          data |-> stream, rest |-> <<>>]

\* p.reader.Discard(n)
discard(stream, end, n) ==
    IF ByteLen(stream) >= n
    THEN Only({ [err |-> NoErr, rest |-> SubSeq(stream, k + 1, Len(stream))] :
                k \in {Prefix(stream, n)} })
    ELSE [err |-> readError(end), rest |-> <<>>]

\* ---- HTTPRequest ------------------------------------------------------------

NilURL == [nil |-> TRUE, Path |-> <<>>, RawQuery |-> <<>>]

\* requestPool.New
newRequest ==
    [Method |-> <<>>, URL |-> NilURL, Proto |-> <<>>, Headers |-> EmptyMap,
     Body |-> <<>>, Host |-> <<>>, RawURL |-> <<>>, contentLength |-> 0,
     parsed |-> FALSE]

\* HTTPRequest.reset that forgets to delete the header entries.
requestReset_keepHeaders(r) ==
    [r EXCEPT !.Method = <<>>, !.URL = NilURL, !.Proto = <<>>, !.Host = <<>>,
              !.RawURL = <<>>, !.contentLength = 0, !.parsed = FALSE,
              !.Body = <<>>]

\* HTTPRequest.reset
requestReset(r) ==
    [r EXCEPT !.Method = <<>>, !.URL = NilURL, !.Proto = <<>>, !.Host = <<>>,
              !.RawURL = <<>>, !.contentLength = 0, !.parsed = FALSE,
              !.Body = <<>>, !.Headers = EmptyMap]

\* HTTPRequest.GetHeader: the map's zero value for a missing key.
GetHeader(headers, key) == IF key \in DOMAIN headers THEN headers[key] ELSE <<>>

\* HTTPRequest.ContentLength: the value and the request with its cache.
ContentLength(r) ==
    IF r.contentLength > 0 THEN [req |-> r, n |-> r.contentLength]
    ELSE LET clStr == GetHeader(r.Headers, <<"Content-Length">>)
             cl    == Atoi(clStr)
         IN IF clStr # <<>> /\ cl.ok /\ cl.val >= 0
            THEN [req |-> [r EXCEPT !.contentLength = cl.val], n |-> cl.val]
            ELSE [req |-> r, n |-> 0]

\* ---- HTTPParser -------------------------------------------------------------

Verbs == { <<"GET">>, <<"POST">>, <<"PUT">>, <<"DELETE">>, <<"HEAD">>,
           <<"OPTIONS">>, <<"PATCH">>, <<"CONNECT">>, <<"TRACE">> }

isValidMethod(method) == method \in Verbs \/ ToUpper(method) \in Verbs

\* A token url.Parse rejects as an invalid percent-escape.
BadEscape == "%zz"

\* url.Parse on a request target: path up to the first '?', query after it.
urlParse(raw) ==
    IF \E i \in 1..Len(raw) : raw[i] = BadEscape
    THEN [ok |-> FALSE, url |-> NilURL]
    ELSE LET i == IndexOf(raw, "?") IN
         IF i = 0
         THEN [ok |-> TRUE,
               url |-> [nil |-> FALSE, Path |-> raw, RawQuery |-> <<>>]]
         ELSE [ok |-> TRUE,
               url |-> [nil |-> FALSE, Path |-> SubSeq(raw, 1, i - 1),
                        RawQuery |-> SubSeq(raw, i + 1, Len(raw))]]

\* url.Parse(url.QueryEscape(raw)): every reserved character is escaped, so
\* the whole target parses as one path that unescapes to raw.
urlParseEscaped(raw) ==
    [ok |-> TRUE, url |-> [nil |-> FALSE, Path |-> raw, RawQuery |-> <<>>]]

Result(st, err, req, rest) ==
    [st |-> st, err |-> err, req |-> req, rest |-> rest]

\* parseRequestLineFast that validates the method before it counts the
\* parts of the line.
requestLineInto_methodFirst(req, rl, parts) ==
    LET r1 == [req EXCEPT !.Method = parts[1]] IN
    IF ~isValidMethod(parts[1])
    THEN Result("err",
                grammarError(Words(<<"invalid", "HTTP", "method">>)
                               \o <<":", SP>> \o parts[1]),
                r1, rl.rest)
    ELSE
    IF Len(parts) < 2
    THEN Result("err",
                grammarError(Words(<<"malformed", "request", "line">>)
                               \o <<":", SP>> \o Quote(rl.line)),
                req, rl.rest)
    ELSE
    LET proto == IF Len(parts) >= 3 THEN parts[3] ELSE <<"HTTP/1.1">>
        raw0  == IF parts[2] = <<>> THEN <<"/">> ELSE parts[2]
        raw   == IF ~Contains(raw0, <<"://">>) /\ raw0[1] # "/"
                 THEN <<"/">> \o raw0 ELSE raw0
        r2    == [r1 EXCEPT !.RawURL = raw, !.Proto = proto]
        u1    == urlParse(raw)
        u     == IF u1.ok THEN u1 ELSE urlParseEscaped(raw)
    IN IF ~u.ok
       THEN Result("err",
                   grammarError(Words(<<"failed", "to", "parse", "URL">>)
                                  \o <<SP>> \o Quote(raw) \o <<":", SP>>
                                  \o Words(<<"invalid", "URL", "escape">>)),
                   r2, rl.rest)
       ELSE Result("ok", NoErr, [r2 EXCEPT !.URL = u.url], rl.rest)

\* parseRequestLineFast once the line is read and split at its spaces.
requestLineInto(req, rl, parts) ==
    IF Len(parts) < 2
    THEN Result("err",
                grammarError(Words(<<"malformed", "request", "line">>)
                               \o <<":", SP>> \o Quote(rl.line)),
                req, rl.rest)
    ELSE
    LET r1 == [req EXCEPT !.Method = parts[1]] IN
    IF ~isValidMethod(parts[1])
    THEN Result("err",
                grammarError(Words(<<"invalid", "HTTP", "method">>)
                               \o <<":", SP>> \o parts[1]),
                r1, rl.rest)
    ELSE
    LET proto == IF Len(parts) >= 3 THEN parts[3] ELSE <<"HTTP/1.1">>
        raw0  == IF parts[2] = <<>> THEN <<"/">> ELSE parts[2]
        raw   == IF ~Contains(raw0, <<"://">>) /\ raw0[1] # "/"
                 THEN <<"/">> \o raw0 ELSE raw0
        r2    == [r1 EXCEPT !.RawURL = raw, !.Proto = proto]
        u1    == urlParse(raw)
        u     == IF u1.ok THEN u1 ELSE urlParseEscaped(raw)
    IN IF ~u.ok
       THEN Result("err",
                   grammarError(Words(<<"failed", "to", "parse", "URL">>)
                                  \o <<SP>> \o Quote(raw) \o <<":", SP>>
                                  \o Words(<<"invalid", "URL", "escape">>)),
                   r2, rl.rest)
       ELSE Result("ok", NoErr, [r2 EXCEPT !.URL = u.url], rl.rest)

\* HTTPParser.parseRequestLineFast
parseRequestLineFast(req, stream, end) ==
    Only({ IF rl.err # NoErr THEN Result("err", rl.err, req, rl.rest)
           ELSE Only({ requestLineInto(req, rl, parts) :
                       parts \in {Split(rl.line, SP)} }) :
           rl \in {readLineFast(stream, end)} })

\* HTTPParser.parseHeadersFast
RECURSIVE parseHeadersLoop(_, _, _, _)
parseHeadersLoop(req, stream, end, headerCount) ==
    Only({
      IF rl.err # NoErr
      THEN IF rl.err.ident = "io.EOF" /\ headerCount > 0
           THEN Result("ok", NoErr, req, rl.rest)
           ELSE Result("err", rl.err, req, rl.rest)
      ELSE IF rl.line = <<>> THEN Result("ok", NoErr, req, rl.rest)
      ELSE
      LET idx == IndexOf(rl.line, ":") IN
      IF idx <= 1
      THEN parseHeadersLoop(req, rl.rest, end, headerCount)
      ELSE LET key   == TrimSpace(SubSeq(rl.line, 1, idx - 1))
               value == TrimSpace(SubSeq(rl.line, idx + 1, Len(rl.line)))
               r1    == [req EXCEPT !.Headers = (key :> value) @@ @]
               r2    == IF key = <<"Host">> THEN [r1 EXCEPT !.Host = value]
                        ELSE r1
           IN Only({ parseHeadersLoop(next, rl.rest, end, headerCount + 1) :
                     next \in {r2} }) :
      rl \in {readLineFast(stream, end)} })

parseHeadersFast(req, stream, end) == parseHeadersLoop(req, stream, end, 0)

\* The loop that consumes the trailer lines after the zero-size chunk.
RECURSIVE readTrailers(_, _)
readTrailers(stream, end) ==
    Only({ IF rl.err # NoErr THEN [err |-> rl.err, rest |-> rl.rest]
           ELSE IF rl.line = <<>> THEN [err |-> NoErr, rest |-> rl.rest]
           ELSE readTrailers(rl.rest, end) :
           rl \in {readLineFast(stream, end)} })

\* Capacity of a new parser's chunkBuffer. The program uses 8192
\* (NewHTTPParser); the model runs the same code with a capacity that the
\* bodies of the model exceed.
ChunkBufferCap == 2

\* A chunkBuffer that is never replaced by a larger one.
ensureCapacity_fixed(chunkBuffer, n) == chunkBuffer

\* p.chunkBuffer as the chunk of n bytes is about to be read: a larger array
\* when the capacity does not hold n more bytes, the contents copied.
ensureCapacity(chunkBuffer, n) ==
    IF chunkBuffer.cap < ByteLen(chunkBuffer.buf) + n
    THEN [buf |-> chunkBuffer.buf, cap |-> (ByteLen(chunkBuffer.buf) + n) * 2]
    ELSE chunkBuffer

\* One round of the loop of parseChunkedBodyFast once its chunk-size line is
\* read and converted.
RECURSIVE parseChunkedLoop(_, _, _, _, _)
chunkInto(req, rl, cs, end, chunkBuffer, totalRead) ==
    IF ~cs.ok
    THEN Result("err",
                grammarError(Words(<<"invalid", "chunk", "size">>)
                               \o <<":", SP>> \o Quote(rl.line)),
                req, rl.rest)
    ELSE IF cs.int64 = Int64Zero
    THEN Only({ IF tr.err # NoErr THEN Result("err", tr.err, req, tr.rest)
                ELSE Result("ok", NoErr,
                            [req EXCEPT !.Body = chunkBuffer.buf,
                                        !.contentLength = ByteLen(chunkBuffer.buf)],
                            tr.rest) :
                tr \in {readTrailers(rl.rest, end)} })
    ELSE
    \* totalRead += int(chunkSize), and oldLen+int(chunkSize): int additions
    LET total64  == add64(int64Of(totalRead), cs.int64)
        oldLen   == ByteLen(chunkBuffer.buf)
        newLen64 == add64(int64Of(oldLen), cs.int64)
    IN IF greater64(total64, MaxBodyBytes)
       THEN Result("err",
                   grammarError(Words(<<"chunked", "body", "too", "large">>)
                                  \o <<":", SP>> \o decimal64(total64)
                                  \o <<SP, "bytes">>),
                   req, rl.rest)
       \* p.chunkBuffer[:oldLen+n] and p.chunkBuffer[oldLen:] are out of
       \* range for a negative n, and for an n that wraps the sum around: a
       \* run-time panic.
       ELSE IF isNegative64(newLen64) \/ ~isSmall64(newLen64)
       THEN Result("panic", NoErr, req, rl.rest)
       ELSE
       LET total  == smallOf64(total64)
           newLen == smallOf64(newLen64)
           grown  == ensureCapacity(chunkBuffer, cs.val)
       IN IF newLen > grown.cap \/ oldLen > newLen
          THEN Result("panic", NoErr, req, rl.rest)
          ELSE Only({
              IF rd.err # NoErr THEN Result("err", rd.err, req, rd.rest)
              ELSE Only({
                     IF dc.err # NoErr THEN Result("err", dc.err, req, dc.rest)
                     ELSE Only({ parseChunkedLoop(req, dc.rest, end, buffer, read) :
                                 buffer \in {[buf |-> chunkBuffer.buf \o rd.data,
                                              cap |-> grown.cap]},
                                 read \in {total} }) :
                     dc \in {discard(rd.rest, end, 2)} }) :
              rd \in {readFull(rl.rest, end, cs.val)} })

\* The loop of parseChunkedBodyFast, from one chunk-size line on.
parseChunkedLoop(req, stream, end, chunkBuffer, totalRead) ==
    Only({ IF rl.err # NoErr THEN Result("err", rl.err, req, rl.rest)
           ELSE Only({ chunkInto(req, rl, cs, end, chunkBuffer, totalRead) :
                       cs \in {ParseInt16(rl.line)} }) :
           rl \in {readLineFast(stream, end)} })

\* HTTPParser.parseChunkedBodyFast
parseChunkedBodyFast(req, stream, end) ==
    parseChunkedLoop(req, stream, end, [buf |-> <<>>, cap |-> ChunkBufferCap], 0)

\* parseBodyFast once ContentLength() has returned.
bodyInto(r1, n, stream, end) ==
    LET te == GetHeader(r1.Headers, <<"Transfer-Encoding">>)
    IN IF n > 0
       THEN IF n > MaxBodyBytes
            THEN Result("err",
                        grammarError(Words(<<"body", "too", "large">>)
                                       \o <<":", SP>> \o Itoa(n)
                                       \o <<SP, "bytes">>),
                        r1, stream)
            ELSE Only({
                   IF rd.err # NoErr
                   THEN Result("err",
                               wrapError(Words(<<"failed", "to", "read", "body">>),
                                         rd.err),
                               [r1 EXCEPT !.Body = rd.data], rd.rest)
                   ELSE Result("ok", NoErr, [r1 EXCEPT !.Body = rd.data], rd.rest) :
                   rd \in {readFull(stream, end, n)} })
       ELSE IF te # <<>> /\ Contains(ToLower(te), <<"chunked">>)
       THEN parseChunkedBodyFast(r1, stream, end)
       ELSE Result("ok", NoErr, r1, stream)

\* HTTPParser.parseBodyFast
parseBodyFast(req, stream, end) ==
    Only({ bodyInto(cl.req, cl.n, stream, end) : cl \in {ContentLength(req)} })

\* The error of a step of parseRequestInto under the step's name.
wrapResult(r, prefix) ==
    IF r.st = "err" THEN [r EXCEPT !.err = wrapError(prefix, @)] ELSE r

\* HTTPParser.parseRequestInto
parseRequestInto(req, stream, end) ==
    Only({
      IF l.st # "ok" THEN wrapResult(l, Words(<<"request", "line", "error">>))
      ELSE Only({
             IF h.st # "ok" THEN wrapResult(h, Words(<<"headers", "error">>))
             ELSE Only({ wrapResult(b, Words(<<"body", "error">>)) :
                         b \in {parseBodyFast(h.req, h.rest, end)} }) :
             h \in {parseHeadersFast(l.req, l.rest, end)} }) :
      l \in {parseRequestLineFast(req, stream, end)} })

\* ---- classification of a parse failure (http_server.go) -------------------

timeoutIndicators ==
    { <<"timeout">>, Words(<<"i/o", "timeout">>),
      Words(<<"deadline", "exceeded">>), Words(<<"timed", "out">>) }

\* isTimeoutError: the text, lower-cased, contains an indicator. (The value is
\* never a net.Error here: parseRequestInto returns a new error value.)
isTimeoutError(err) ==
    /\ err # NoErr
    /\ \/ \E ind \in timeoutIndicators : Contains(ToLower(err.msg), ind)
       \/ err.ident = "net.OpError" /\ Contains(err.msg, <<"timeout">>)

parseErrorIndicators ==
    { Words(<<"invalid", "request", "line">>),
      Words(<<"invalid", "HTTP", "method">>),
      Words(<<"invalid", "URL">>),
      Words(<<"malformed", "request", "line">>),
      Words(<<"invalid", "chunk", "size">>),
      Words(<<"failed", "to", "parse">>),
      <<"malformed">>,
      Words(<<"invalid", "header">>),
      Words(<<"invalid", "Content-Length">>),
      Words(<<"body", "too", "large">>) }

\* isParseError
isParseError(err) ==
    /\ err # NoErr
    /\ \E ind \in parseErrorIndicators : Contains(err.msg, ind)

\* handleParseError that answers 400 to every failure, as the keep-alive
\* loop of the earlier snapshot does.
handleParseErrorSends400_always(err) == TRUE

\* handleParseError: whether the switch reaches sendErrorFast(conn, 400, ...).
handleParseErrorSends400(err) ==
    /\ err.ident # "io.EOF"
    /\ ~isTimeoutError(err)
    /\ isParseError(err)

\* ---- Context and ResponseWriter ---------------------------------------------

\* contextPool.New
newContext ==
    [Conn |-> Nil, Request |-> Nil, Writer |-> Nil, params |-> EmptyParams,
     Values |-> EmptyMap, Index |-> 0, handlers |-> <<>>]

\* Context.fastInit
contextFastInit(ctx, conn, req, writer, params, handler) ==
    [ctx EXCEPT !.Conn = conn, !.Request = req, !.Writer = writer,
                !.params = params, !.Index = -1, !.handlers = <<handler>>,
                !.Values = EmptyMap]

\* Context.reset: every reference dropped, the handler slice truncated and
\* the Values map emptied.
contextReset(ctx) ==
    [ctx EXCEPT !.Conn = Nil, !.Request = Nil, !.Writer = Nil,
                !.params = EmptyParams, !.Index = -1, !.handlers = <<>>,
                !.Values = EmptyMap]

\* Context.Set
contextSet(ctx, key, value) == [ctx EXCEPT !.Values = (key :> value) @@ @]

\* responseWriterPool.New
newWriter == [conn |-> Nil, header |-> EmptyMap, status |-> 0, buffer |-> <<>>]

\* ResponseWriter.fastInit
writerFastInit(w, conn) ==
    [w EXCEPT !.conn = conn, !.status = 200, !.buffer = <<>>,
              !.header = EmptyMap]

\* ResponseWriter.reset
writerReset(w) ==
    [w EXCEPT !.conn = Nil, !.status = 200, !.buffer = <<>>,
              !.header = EmptyMap]

\* ResponseWriter.SetHeader
SetHeader(w, key, value) == [w EXCEPT !.header = (key :> value) @@ @]

\* ResponseWriter.Status
Status(w, code) == [w EXCEPT !.status = code]

HdrConnection == <<"Connection">>
HdrContentType == <<"Content-Type">>
HdrContentLength == <<"Content-Length">>
ApplicationJSON == <<"application/json;", SP, "charset=utf-8">>

\* getStatusText
getStatusText(code) ==
    CASE code = 200 -> <<"OK">>
      [] code = 201 -> <<"Created">>
      [] code = 400 -> Words(<<"Bad", "Request">>)
      [] code = 404 -> Words(<<"Not", "Found">>)
      [] code = 500 -> Words(<<"Internal", "Server", "Error">>)
      [] OTHER -> Words(<<"Unknown", "Status">>)

\* A writeResponse that leaves Content-Length to the caller.
writeResponse_noLength(w, body) ==
    LET h2 == (HdrConnection :> <<"close">>) @@ w.header
        msg == [status |-> w.status, text |-> getStatusText(w.status),
                header |-> h2, body |-> body]
    IN [w |-> [w EXCEPT !.header = h2, !.buffer = <<msg.status>>], msg |-> msg]

\* ResponseWriter.writeResponse: the writer afterwards and the message that
\* goes to the connection. Lengths are counted in tokens.
writeResponse(w, body) ==
    LET h1 == IF GetHeader(w.header, HdrContentLength) = <<>>
              THEN (HdrContentLength :> Itoa(Len(body))) @@ w.header
              ELSE w.header
        h2 == (HdrConnection :> <<"close">>) @@ h1
        msg == [status |-> w.status, text |-> getStatusText(w.status),
                header |-> h2, body |-> body]
    IN [w |-> [w EXCEPT !.header = h2, !.buffer = <<msg.status>>], msg |-> msg]

\* ResponseWriter.JSON, given the marshalled data.
JSON(w, jsonData) == writeResponse(SetHeader(w, HdrContentType, ApplicationJSON), jsonData)

\* The marshalled body of sendErrorFast: {"code":code,"error":message}.
errorBody(code, message) ==
    <<"{", "code", ":">> \o Itoa(code) \o <<",", "error", ":">> \o message \o <<"}">>

\* ---- the connection task: state -------------------------------------------

\* Number of connections accepted over a run.
MaxConns == 3

\* Number of calls a handler makes on its Context before it returns.
MaxHandlerOps == 2

\* The workers of the goroutine pool that run connection tasks.
Workers == {"w1", "w2"}

ReqIds == {"q1", "q2"}
CtxIds == {"x1", "x2"}
WriterIds == {"o1", "o2"}

\* What a task saw in the objects it took, at the moment the claim about
\* reuse speaks of: the request as it came from the pool, the Values of the
\* context and the header and status of the writer right after fastInit.
CleanView ==
    [req |-> newRequest, Values |-> EmptyMap, header |-> EmptyMap,
     status |-> 200]

\* Besides the locals of the task, as history: whether the request it
\* parsed last asked for Connection: close, how many requests it has parsed,
\* whether the route lookup of the last one found nothing, whether it has
\* read a request it had released, and whether it went on to another request
\* after one that asked for Connection: close.
IdleTask ==
    [pc |-> "idle", input |-> <<>>, stream |-> <<>>, end |-> "EOF",
     req |-> Nil, ctx |-> Nil, writer |-> Nil, err |-> NoErr,
     panicking |-> FALSE, parserPanicked |-> FALSE, handlerPanicked |-> FALSE,
     ops |-> 0, taken |-> {}, view |-> CleanView, reused |-> {},
     closeAsked |-> FALSE, served |-> 0, notFound |-> FALSE,
     staleRead |-> FALSE, readOn |-> FALSE]

\* A connection: what the client has received and whether the server has
\* closed it; as history, what the task has done on it, in order: the read
\* deadline set ("readDeadline"), ParseRequest called ("parse") and returned
\* a request ("parsed"), the write deadline set ("writeDeadline"), the route
\* looked up ("lookup") and found ("found"), the handler chain entered
\* ("handler"), a response of the handler ("respond"), a Write ("write") and
\* a Close ("close").
NewWire == [sent |-> <<>>, closed |-> FALSE, log |-> <<>>]

logged(w, events) == [w EXCEPT !.log = @ \o events]

Active(c) == task[c].pc \notin {"idle", "done"}

\* Objects some running task holds.
InUse == UNION {task[c].taken : c \in {d \in Workers : Active(d)}}

\* sync.Pool.Get: a pooled object, or a new one. The identity of an object
\* nobody refers to any more is free to be allocated again; which of the free
\* identities a new object gets makes no difference.
Gettable(pool, ids, kind) ==
    LET free == {id \in ids : id \notin pool /\ <<kind, id>> \notin InUse}
    IN pool \cup (IF free = {} THEN {} ELSE {CHOOSE id \in free : TRUE})

\* net.Conn.Write: nothing arrives once the connection is closed.
connWrite(w, msg) ==
    logged(IF w.closed THEN w ELSE [w EXCEPT !.sent = Append(@, msg)],
           <<"write">>)

\* net.Conn.Close
connClose(w) == logged([w EXCEPT !.closed = TRUE], <<"close">>)

\* Router.FindRoute run to completion: the result and the cache afterwards.
FindRoute(method, path) ==
    LET key  == cacheKey(method, path)
        hit  == {e \in routeCache : e.key = key}
        list == IF method \in DOMAIN routes THEN routes[method] ELSE <<>>
        r    == scanRoutes(list, path)
    IN IF hit # {}
       THEN LET e == CHOOSE x \in hit : TRUE
            IN [handler |-> e.handler, params |-> e.params, cache |-> routeCache]
       ELSE IF r.handler = NilHandler
       THEN [handler |-> NilHandler, params |-> EmptyParams, cache |-> routeCache]
       ELSE [handler |-> r.handler, params |-> r.params,
             cache |-> putToCache(routeCache, key,
                                  [key |-> key, handler |-> r.handler,
                                   params |-> r.params, method |-> method,
                                   ver |-> Len(list),
                                   flushed |->
                                      Cardinality(routeCache) >= cacheSize])]

\* A key that folds the method to upper case before the lookup.
methodKey_upper(method) == IF Len(method) = 1 THEN ToUpper(method)[1] ELSE ""

\* The method of a parsed request as the key of the route table. A method
\* that passed isValidMethod is one word.
methodKey(method) == IF Len(method) = 1 THEN method[1] ELSE ""

ConnInit ==
    /\ task = [c \in Workers |-> IdleTask]
    /\ wire = [c \in Workers |-> NewWire]
    /\ requestPool = {}
    /\ contextPool = {}
    /\ responseWriterPool = {}
    /\ requests = [id \in ReqIds |-> newRequest]
    /\ contexts = [id \in CtxIds |-> newContext]
    /\ writers = [id \in WriterIds |-> newWriter]
    /\ accepted = 0
    /\ carried = {}

\* Capacity of the goroutine pool. The program uses 5000 (New); the model
\* runs the accept loop against a pool small enough to be saturated.
PoolCapacity == 2

\* The clients that connect to the listener over a run: one more than the
\* pool can serve at a time.
Clients == 1..(PoolCapacity + 1)

NoParsing == [pc |-> "idle"]

\* A server on which nothing is registered: HTTPServer.middlewares is empty
\* and no route is added.
\* Of the request a connection task is processing: the chain that
\* findRouteHandler built for it (chain, empty for the bare handler),
\* whether its middlewares have been entered (stage), and the goroutine in
\* which the Timeout middleware runs the rest of the chain (handlerGo): the
\* Context it was given, the calls it has made, and, as history, whether it
\* has used the Context after the middleware returned ("late") or after
\* the objects were put back ("released"). snapshot is the local
\* `middlewares` of findRouteHandler: the length of the slice header it
\* copied and, as history, the list at that moment and whether the list had
\* grown when the chain was built.
NoGoroutine == [live |-> FALSE, ctx |-> Nil, ops |-> 0, used |-> "none"]

NoPipeline ==
    [pc |-> "setup", middlewares |-> <<>>, group |-> <<>>, handler |-> "",
     route |-> <<>>, authorized |-> FALSE, ctx |-> newContext, trace |-> <<>>,
     chain |-> <<>>, stage |-> "none", handlerGo |-> NoGoroutine,
     snapshot |-> [len |-> 0, seen |-> <<>>, grown |-> FALSE]]

\* The server after New(): the context is not cancelled, the pool runs
\* nothing, and neither Start() nor Shutdown() has been called.
ServerIdle ==
    /\ serverDone = FALSE
    /\ antsPool = [running |-> {}, closed |-> FALSE]
    /\ acceptLoop = [pc |-> "idle", conn |-> 0, ret |-> Nil, late |-> {}]
    /\ shutdownCall = "idle"
    /\ conns = [k \in Clients |-> "none"]
    /\ parsing = NoParsing
    /\ pipeline = NoPipeline

\* ---- the connection task: steps --------------------------------------------

\* HTTPServer.sendErrorFast: a writer from the pool, fastInit, the error as
\* JSON with Connection: close, and the writer reset and put back.
SendErrorOn(c, conn, code, message, thenClose) ==
    \E id \in Gettable(responseWriterPool, WriterIds, "writer") :
        LET got == IF id \in responseWriterPool THEN writers[id] ELSE newWriter
            w1  == SetHeader(writerFastInit(got, c), HdrConnection, <<"close">>)
            out == JSON(Status(w1, code), errorBody(code, message))
            w2  == connWrite(conn, out.msg)
        IN /\ writers' = [writers EXCEPT ![id] = writerReset(out.w)]
           /\ responseWriterPool' = responseWriterPool \cup {id}
           /\ wire' = [wire EXCEPT ![c] = IF thenClose THEN connClose(w2) ELSE w2]
           /\ carried' = carried \cup {<<"writer", id>>}

SendErrorFast(c, code, message, thenClose) ==
    SendErrorOn(c, wire[c], code, message, thenClose)

\* The server accepts a connection and a worker starts handleConnectionFast
\* on it: the parser is created and the read deadline set.
Accept(c, stream, end) ==
    /\ ~Active(c)
    /\ accepted < MaxConns
    /\ accepted' = accepted + 1
    /\ task' = [task EXCEPT ![c] = [IdleTask EXCEPT !.pc = "parse",
                                                   !.input = stream,
                                                   !.stream = stream,
                                                   !.end = end]]
    /\ wire' = [wire EXCEPT ![c] = logged(NewWire, <<"readDeadline">>)]
    /\ UNCHANGED <<requestPool, contextPool, responseWriterPool, requests,
                   contexts, writers, carried>>
    /\ UNCHANGED <<routerVars, srvVars>>

\* HTTPParser.ParseRequest, called from handleConnectionFast.
ParseRequest(c) ==
    /\ task[c].pc = "parse"
    /\ \E id \in Gettable(requestPool, ReqIds, "req") :
      \E got \in {IF id \in requestPool THEN requests[id] ELSE newRequest} :
      \E r \in {parseRequestInto(got, task[c].stream, task[c].end)} :
        LET pooled == id \in requestPool
            t1  == [task[c] EXCEPT !.stream = r.rest,
                                   !.view.req = got,
                                   !.closeAsked =
                                      /\ r.st = "ok"
                                      /\ GetHeader(r.req.Headers, HdrConnection)
                                            = <<"close">>,
                                   !.served = IF r.st = "ok" THEN @ + 1 ELSE @,
                                   !.notFound = FALSE,
                                   !.readOn = @ \/ task[c].closeAsked,
                                   !.reused = IF pooled /\ <<"req", id>> \in carried
                                              THEN @ \cup {"req"} ELSE @]
            had == IF r.req.Headers # EmptyMap \/ r.req.Body # <<>>
                   THEN (IF pooled THEN carried ELSE carried \ {<<"req", id>>})
                          \cup {<<"req", id>>}
                   ELSE IF pooled THEN carried ELSE carried \ {<<"req", id>>}
        IN /\ carried' = had
           /\ wire' = [wire EXCEPT ![c] =
                         logged(@, IF r.st = "ok" THEN <<"parse", "parsed">>
                                   ELSE <<"parse">>)]
           /\ CASE r.st = "ok" ->
                   /\ requests' = [requests EXCEPT ![id] = [r.req EXCEPT !.parsed = TRUE]]
                   /\ requestPool' = requestPool \ {id}
                   /\ task' = [task EXCEPT ![c] =
                                 [t1 EXCEPT !.pc = "process", !.req = id,
                                            !.taken = @ \cup {<<"req", id>>}]]
                [] r.st = "err" ->
                   \* ReleaseRequest(req); return nil, err
                   /\ requests' = [requests EXCEPT ![id] = requestReset(r.req)]
                   /\ requestPool' = requestPool \cup {id}
                   /\ task' = [task EXCEPT ![c] =
                                 [t1 EXCEPT !.pc = "parseError", !.err = r.err]]
                [] OTHER ->
                   \* a run-time panic unwinds ParseRequest: nothing in it
                   \* is deferred, the request stays with the task's frame
                   /\ requests' = [requests EXCEPT ![id] = r.req]
                   /\ requestPool' = requestPool \ {id}
                   /\ task' = [task EXCEPT ![c] =
                                 [t1 EXCEPT !.pc = "connDefer",
                                            !.panicking = TRUE,
                                            !.parserPanicked = TRUE,
                                            !.taken = @ \cup {<<"req", id>>}]]
    /\ UNCHANGED <<contextPool, responseWriterPool, contexts, writers,
                   accepted>>
    /\ UNCHANGED <<routerVars, srvVars>>

\* handleParseError on a connection that is closed before the error is
\* answered.
HandleParseError_closeFirst(c) ==
    /\ task[c].pc = "parseError"
    /\ IF handleParseErrorSends400(task[c].err)
       THEN SendErrorOn(c, connClose(wire[c]), 400,
                        Words(<<"Bad", "Request">>), FALSE)
       ELSE UNCHANGED <<writers, responseWriterPool, wire, carried>>
    /\ task' = [task EXCEPT ![c].pc = "connDefer"]
    /\ UNCHANGED <<requestPool, contextPool, requests, contexts, accepted>>
    /\ UNCHANGED <<routerVars, srvVars>>

\* HTTPServer.handleParseError, then the return of handleConnectionFast.
HandleParseError(c) ==
    /\ task[c].pc = "parseError"
    /\ IF handleParseErrorSends400(task[c].err)
       THEN SendErrorFast(c, 400, Words(<<"Bad", "Request">>), FALSE)
       ELSE UNCHANGED <<writers, responseWriterPool, wire, carried>>
    /\ task' = [task EXCEPT ![c].pc = "connDefer"]
    /\ UNCHANGED <<requestPool, contextPool, requests, contexts, accepted>>
    /\ UNCHANGED <<routerVars, srvVars>>

\* A lookup that wraps the handler in the global middlewares and enters the
\* chain before it looks at what FindRoute returned.
DispatchNotFound_chainFirst(c) ==
    /\ task[c].pc = "process"
    /\ \E f \in {FindRoute(methodKey(requests[task[c].req].Method),
                             requests[task[c].req].URL.Path)} :
          /\ f.handler = NilHandler
          /\ routeCache' = f.cache
    /\ SendErrorOn(c, logged(wire[c], <<"writeDeadline", "lookup">>), 404,
                   Words(<<"Not", "Found">>), FALSE)
    /\ task' = [task EXCEPT ![c] = [@ EXCEPT !.pc = "procClose",
                                             !.notFound = TRUE]]
    /\ pipeline' = [pipeline EXCEPT !.chain = pipeline.middlewares,
                                    !.stage = "entered"]
    /\ UNCHANGED <<requestPool, contextPool, requests, contexts, accepted>>
    /\ UNCHANGED <<routes, locks, pc, call, snap, res, issued, completedLen,
                   missed>>
    /\ UNCHANGED <<serverDone, antsPool, acceptLoop, shutdownCall, conns,
                   parsing>>

\* processRequestFast up to the route lookup: no handler, 404 and return.
DispatchNotFound(c) ==
    /\ task[c].pc = "process"
    /\ \E f \in {FindRoute(methodKey(requests[task[c].req].Method),
                             requests[task[c].req].URL.Path)} :
          /\ f.handler = NilHandler
          /\ routeCache' = f.cache
    /\ SendErrorOn(c, logged(wire[c], <<"writeDeadline", "lookup">>), 404,
                   Words(<<"Not", "Found">>), FALSE)
    /\ task' = [task EXCEPT ![c] = [@ EXCEPT !.pc = "procClose",
                                             !.notFound = TRUE]]
    /\ UNCHANGED <<requestPool, contextPool, requests, contexts, accepted>>
    /\ UNCHANGED <<routes, locks, pc, call, snap, res, issued, completedLen,
                   missed>>
    /\ UNCHANGED srvVars

\* processRequestFast from the route lookup to ctx.Next(): Context and
\* ResponseWriter from their pools, fastInit and, where the server forces
\* short connections, the header Connection: close.
DispatchTo(c, forceClose) ==
    /\ task[c].pc = "process"
    /\ \E f \in {FindRoute(methodKey(requests[task[c].req].Method),
                             requests[task[c].req].URL.Path)} :
          /\ f.handler # NilHandler
          /\ routeCache' = f.cache
          /\ \E x \in Gettable(contextPool, CtxIds, "ctx"),
                o \in Gettable(responseWriterPool, WriterIds, "writer") :
               LET xp   == x \in contextPool
                   op   == o \in responseWriterPool
                   ctx0 == IF xp THEN contexts[x] ELSE newContext
                   w0   == IF op THEN writers[o] ELSE newWriter
                   ctx1 == contextFastInit(ctx0, c, task[c].req, o, f.params,
                                           f.handler)
                   w1   == writerFastInit(w0, c)
                   \* ctx.Next(): Index++ and the handler is entered
                   ctx2 == [ctx1 EXCEPT !.Index = @ + 1]
               IN /\ contexts' = [contexts EXCEPT ![x] = ctx2]
                  /\ writers' = [writers EXCEPT ![o] =
                                   IF forceClose
                                   THEN SetHeader(w1, HdrConnection, <<"close">>)
                                   ELSE w1]
                  /\ contextPool' = contextPool \ {x}
                  /\ responseWriterPool' = responseWriterPool \ {o}
                  /\ carried' = ((carried \ (IF xp THEN {} ELSE {<<"ctx", x>>}))
                                   \ (IF op THEN {} ELSE {<<"writer", o>>}))
                                 \cup {<<"writer", o>>}
                  /\ task' = [task EXCEPT ![c] =
                       [@ EXCEPT !.pc = "handler", !.ctx = x, !.writer = o,
                                 !.ops = 0,
                                 !.taken = @ \cup {<<"ctx", x>>, <<"writer", o>>},
                                 !.view.Values = ctx1.Values,
                                 !.view.header = w1.header,
                                 !.view.status = w1.status,
                                 !.reused = @ \cup
                                    (IF xp /\ <<"ctx", x>> \in carried
                                     THEN {"ctx"} ELSE {}) \cup
                                    (IF op /\ <<"writer", o>> \in carried
                                     THEN {"writer"} ELSE {})]]
    /\ wire' = [wire EXCEPT ![c] =
                  logged(@, <<"writeDeadline", "lookup", "found", "handler">>)]
    /\ UNCHANGED <<requestPool, requests, accepted>>
    /\ UNCHANGED <<routes, locks, pc, call, snap, res, issued, completedLen,
                   missed>>

\* On a server without middleware the handler of the route is the chain.
DispatchWith(c, forceClose) == DispatchTo(c, forceClose) /\ UNCHANGED srvVars

\* processRequestFast of http_server.go.
Dispatch(c) == DispatchWith(c, TRUE)

\* The handler calls ctx.Set(key, value).
HandlerSet(c, key, value) ==
    /\ task[c].pc = "handler"
    /\ task[c].ops < MaxHandlerOps
    /\ contexts' = [contexts EXCEPT ![task[c].ctx] = contextSet(@, key, value)]
    /\ carried' = carried \cup {<<"ctx", task[c].ctx>>}
    /\ task' = [task EXCEPT ![c].ops = @ + 1]
    /\ UNCHANGED <<wire, requestPool, contextPool, responseWriterPool,
                   requests, writers, accepted>>
    /\ UNCHANGED <<routerVars, srvVars>>

\* The handler calls ctx.Writer.SetHeader(key, value).
HandlerSetHeader(c, key, value) ==
    /\ task[c].pc = "handler"
    /\ task[c].ops < MaxHandlerOps
    /\ writers' = [writers EXCEPT ![task[c].writer] = SetHeader(@, key, value)]
    /\ task' = [task EXCEPT ![c].ops = @ + 1]
    /\ UNCHANGED <<wire, requestPool, contextPool, responseWriterPool,
                   requests, contexts, accepted, carried>>
    /\ UNCHANGED <<routerVars, srvVars>>

\* The handler calls ctx.JSON(code, data).
HandlerJSON(c, code, jsonData) ==
    /\ task[c].pc = "handler"
    /\ task[c].ops < MaxHandlerOps
    /\ LET out == JSON(Status(writers[task[c].writer], code), jsonData)
       IN /\ writers' = [writers EXCEPT ![task[c].writer] = out.w]
          /\ wire' = [wire EXCEPT ![c] =
                        connWrite(logged(@, <<"respond">>), out.msg)]
    /\ task' = [task EXCEPT ![c].ops = @ + 1]
    /\ UNCHANGED <<requestPool, contextPool, responseWriterPool, requests,
                   contexts, accepted, carried>>
    /\ UNCHANGED <<routerVars, srvVars>>

\* The handler panics: the stack unwinds to the deferred functions of
\* processRequestFast.
HandlerPanic(c) ==
    /\ task[c].pc = "handler"
    /\ task' = [task EXCEPT ![c] = [@ EXCEPT !.pc = "procRelease",
                                             !.panicking = TRUE,
                                             !.handlerPanicked = TRUE]]
    /\ UNCHANGED <<wire, requestPool, contextPool, responseWriterPool,
                   requests, contexts, writers, accepted, carried>>
    /\ UNCHANGED <<routerVars, srvVars>>

\* The handler returns, and ctx.Next() with it.
HandlerReturn(c) ==
    /\ task[c].pc = "handler"
    /\ task' = [task EXCEPT ![c].pc = "procRelease"]
    /\ UNCHANGED <<wire, requestPool, contextPool, responseWriterPool,
                   requests, contexts, writers, accepted, carried>>
    /\ UNCHANGED <<routerVars, srvVars>>

\* The deferred function of processRequestFast that was registered last and
\* so runs first: recover(), then Context and ResponseWriter are reset and
\* put back.
ProcRelease(c) ==
    /\ task[c].pc = "procRelease"
    /\ contexts' = [contexts EXCEPT ![task[c].ctx] = contextReset(@)]
    /\ contextPool' = contextPool \cup {task[c].ctx}
    /\ writers' = [writers EXCEPT ![task[c].writer] = writerReset(@)]
    /\ responseWriterPool' = responseWriterPool \cup {task[c].writer}
    /\ task' = [task EXCEPT ![c] =
                  [@ EXCEPT !.pc = "procClose", !.panicking = FALSE,
                            !.taken = @ \ {<<"ctx", task[c].ctx>>,
                                           <<"writer", task[c].writer>>},
                            !.ctx = Nil, !.writer = Nil]]
    /\ UNCHANGED <<wire, requestPool, requests, accepted, carried>>
    /\ UNCHANGED <<routerVars, srvVars>>

\* The deferred function of processRequestFast that was registered first and
\* so runs last: recover() and, if a panic is still in flight, the 500; then
\* conn.Close().
ProcClose(c) ==
    /\ task[c].pc = "procClose"
    /\ IF task[c].panicking
       THEN SendErrorFast(c, 500, Words(<<"Internal", "Server", "Error">>),
                          TRUE)
       ELSE /\ wire' = [wire EXCEPT ![c] = connClose(@)]
            /\ UNCHANGED <<writers, responseWriterPool, carried>>
    /\ task' = [task EXCEPT ![c] = [@ EXCEPT !.pc = "release",
                                             !.panicking = FALSE]]
    /\ UNCHANGED <<requestPool, contextPool, requests, contexts, accepted>>
    /\ UNCHANGED <<routerVars, srvVars>>

\* ReleaseRequest(req) in handleConnectionFast, after processRequestFast.
Release(c) ==
    /\ task[c].pc = "release"
    /\ requests' = [requests EXCEPT ![task[c].req] = requestReset(@)]
    /\ requestPool' = requestPool \cup {task[c].req}
    /\ task' = [task EXCEPT ![c] =
                  [@ EXCEPT !.pc = "connDefer",
                            !.taken = @ \ {<<"req", task[c].req>>},
                            !.req = Nil]]
    /\ UNCHANGED <<wire, contextPool, responseWriterPool, contexts, writers,
                   accepted, carried>>
    /\ UNCHANGED <<routerVars, srvVars>>

\* The deferred function of handleConnectionFast: conn.Close(), recover().
\* The task has returned.
ConnDefer(c) ==
    /\ task[c].pc = "connDefer"
    /\ wire' = [wire EXCEPT ![c] = connClose(@)]
    /\ task' = [task EXCEPT ![c] = [@ EXCEPT !.pc = "done",
                                             !.panicking = FALSE]]
    /\ UNCHANGED <<requestPool, contextPool, responseWriterPool, requests,
                   contexts, writers, accepted, carried>>
    /\ UNCHANGED <<routerVars, srvVars>>

\* ---- Start: the accept loop and the goroutine pool ---------------------------
\* A client connection is "none" (not connected), "queued" (connected, not
\* yet returned by Accept), "accepted" (returned by Accept, in the hands of
\* the loop), "running" (handleConnectionFast runs on it), "served" (the task
\* has returned and closed it) or "rejected" (closed by the loop).
\* The pool is ants.Pool as New() configures it: blocking, so that Submit
\* waits while every worker is busy, and fails only once the pool is
\* released.

\* Start() up to the loop: net.Listen succeeds.
StartListen ==
    /\ acceptLoop.pc = "idle"
    /\ acceptLoop' = [acceptLoop EXCEPT !.pc = "select"]
    /\ UNCHANGED <<serverDone, antsPool, shutdownCall, conns, parsing, pipeline>>
    /\ UNCHANGED <<routerVars, connVars>>

\* A client connects while the listener is open.
ClientConnect(k) ==
    /\ acceptLoop.pc \in {"select", "accept", "submit"}
    /\ conns[k] = "none"
    /\ conns' = [conns EXCEPT ![k] = "queued"]
    /\ UNCHANGED <<serverDone, antsPool, acceptLoop, shutdownCall, parsing, pipeline>>
    /\ UNCHANGED <<routerVars, connVars>>

\* The select at the head of the loop: return nil once the context is
\* cancelled, otherwise go and wait in ln.Accept().
StartSelect ==
    /\ acceptLoop.pc = "select"
    /\ acceptLoop' = IF serverDone
                     THEN [acceptLoop EXCEPT !.pc = "returned", !.ret = "nil"]
                     ELSE [acceptLoop EXCEPT !.pc = "accept"]
    /\ UNCHANGED <<serverDone, antsPool, shutdownCall, conns, parsing, pipeline>>
    /\ UNCHANGED <<routerVars, connVars>>

\* ln.Accept() returns a connection. As history: the connections it has
\* returned after a call of Shutdown() had returned.
StartAccept(k) ==
    /\ acceptLoop.pc = "accept"
    /\ conns[k] = "queued"
    /\ conns' = [conns EXCEPT ![k] = "accepted"]
    /\ acceptLoop' = [acceptLoop EXCEPT
                        !.pc = "submit", !.conn = k,
                        !.late = IF shutdownCall = "returned"
                                 THEN @ \cup {k} ELSE @]
    /\ UNCHANGED <<serverDone, antsPool, shutdownCall, parsing, pipeline>>
    /\ UNCHANGED <<routerVars, connVars>>

\* ln.Accept() returns an error: retry when it is temporary, otherwise
\* return, nil when the context is cancelled.
StartAcceptError(temporary) ==
    /\ acceptLoop.pc = "accept"
    /\ acceptLoop' = IF temporary THEN [acceptLoop EXCEPT !.pc = "select"]
                     ELSE [acceptLoop EXCEPT
                             !.pc = "returned",
                             !.ret = IF serverDone THEN "nil" ELSE "err"]
    /\ UNCHANGED <<serverDone, antsPool, shutdownCall, conns, parsing, pipeline>>
    /\ UNCHANGED <<routerVars, connVars>>

\* Whether the pool starts a task at once: a worker is free.
poolHasRoom_always(pool) == TRUE

poolHasRoom(pool) == Cardinality(pool.running) < PoolCapacity

\* The loop after pool.Submit returned an error and it has not closed the
\* connection.
submitRejected_leak(cs, k) == cs

\* The loop after pool.Submit returned an error: conn.Close().
submitRejected(cs, k) == [cs EXCEPT ![k] = "rejected"]

\* s.pool.Submit(...) and what the loop does with its result. While the
\* pool is at capacity and not released, Submit does not return.
StartSubmit ==
    /\ acceptLoop.pc = "submit"
    /\ \/ /\ antsPool.closed
          /\ conns' = submitRejected(conns, acceptLoop.conn)
          /\ UNCHANGED antsPool
       \/ /\ ~antsPool.closed
          /\ poolHasRoom(antsPool)
          /\ antsPool' = [antsPool EXCEPT !.running = @ \cup {acceptLoop.conn}]
          /\ conns' = [conns EXCEPT ![acceptLoop.conn] = "running"]
    /\ acceptLoop' = [acceptLoop EXCEPT !.pc = "select", !.conn = 0]
    /\ UNCHANGED <<serverDone, shutdownCall, parsing, pipeline>>
    /\ UNCHANGED <<routerVars, connVars>>

\* handleConnectionFast returns on a worker of the pool: its deferred
\* function has closed the connection, and the worker is free.
TaskReturn(k) ==
    /\ k \in antsPool.running
    /\ antsPool' = [antsPool EXCEPT !.running = @ \ {k}]
    /\ conns' = [conns EXCEPT ![k] = "served"]
    /\ UNCHANGED <<serverDone, acceptLoop, shutdownCall, parsing, pipeline>>
    /\ UNCHANGED <<routerVars, connVars>>

\* ---- Shutdown ---------------------------------------------------------------

\* Shutdown() up to s.cancelFunc(): nothing to do when the context is
\* already cancelled.
ShutdownCancel ==
    /\ shutdownCall = "idle"
    /\ IF serverDone
       THEN shutdownCall' = "returned" /\ UNCHANGED serverDone
       ELSE shutdownCall' = "cancelled" /\ serverDone' = TRUE
    /\ UNCHANGED <<antsPool, acceptLoop, conns, parsing, pipeline>>
    /\ UNCHANGED <<routerVars, connVars>>

\* Shutdown(), s.pool.Release(): the pool takes no task any more; the tasks
\* it is running go on.
ShutdownRelease ==
    /\ shutdownCall = "cancelled"
    /\ antsPool' = [antsPool EXCEPT !.closed = TRUE]
    /\ shutdownCall' = "returned"
    /\ UNCHANGED <<serverDone, acceptLoop, conns, parsing, pipeline>>
    /\ UNCHANGED <<routerVars, connVars>>

\* ---- the connection task with the keep-alive loop ----------------------------
\* handleConnectionFast and processRequestFast as the snapshot of the server
\* with the keep-alive loop has them (src/unnamed/part_001). Parser, router,
\* pools, Context and ResponseWriter are the ones above.

\* Number of connections the keep-alive loop serves over a run.
MaxKeepAliveConns == 2

\* A worker starts handleConnectionFast on an accepted connection: the
\* parser is created and the loop entered.
KeepAliveAccept(c, stream, end) ==
    /\ ~Active(c)
    /\ accepted < MaxKeepAliveConns
    /\ accepted' = accepted + 1
    /\ task' = [task EXCEPT ![c] = [IdleTask EXCEPT !.pc = "loop",
                                                   !.input = stream,
                                                   !.stream = stream,
                                                   !.end = end]]
    /\ wire' = [wire EXCEPT ![c] = NewWire]
    /\ UNCHANGED <<requestPool, contextPool, responseWriterPool, requests,
                   contexts, writers, carried>>
    /\ UNCHANGED <<routerVars, srvVars>>

\* The head of the loop: conn.Close() and return when the server context is
\* cancelled, otherwise the read deadline is set and the parser called.
KeepAliveLoop(c) ==
    /\ task[c].pc = "loop"
    /\ IF serverDone
       THEN /\ wire' = [wire EXCEPT ![c] = connClose(@)]
            /\ task' = [task EXCEPT ![c].pc = "connDefer"]
       ELSE /\ task' = [task EXCEPT ![c].pc = "parse"]
            /\ wire' = [wire EXCEPT ![c] = logged(@, <<"readDeadline">>)]
    /\ UNCHANGED <<requestPool, contextPool, responseWriterPool, requests,
                   contexts, writers, accepted, carried>>
    /\ UNCHANGED <<routerVars, srvVars>>

\* ParseRequest failed: 400 with the text of the error, whatever the error
\* is, and the loop is left.
KeepAliveParseError(c) ==
    /\ task[c].pc = "parseError"
    /\ SendErrorFast(c, 400,
                     Words(<<"Bad", "Request">>) \o <<":", SP>> \o task[c].err.msg,
                     FALSE)
    /\ task' = [task EXCEPT ![c].pc = "close"]
    /\ UNCHANGED <<requestPool, contextPool, requests, contexts, accepted>>
    /\ UNCHANGED <<routerVars, srvVars>>

\* processRequestFast up to the route lookup: no handler, 404 and return.
KeepAliveNotFound(c) ==
    /\ task[c].pc = "process"
    /\ \E f \in {FindRoute(methodKey(requests[task[c].req].Method),
                             requests[task[c].req].URL.Path)} :
          /\ f.handler = NilHandler
          /\ routeCache' = f.cache
    /\ SendErrorOn(c, logged(wire[c], <<"writeDeadline", "lookup">>), 404,
                   Words(<<"Not", "Found">>), FALSE)
    /\ task' = [task EXCEPT ![c] = [@ EXCEPT !.pc = "release",
                                             !.notFound = TRUE]]
    /\ UNCHANGED <<requestPool, contextPool, requests, contexts, accepted>>
    /\ UNCHANGED <<routes, locks, pc, call, snap, res, issued, completedLen,
                   missed>>
    /\ UNCHANGED srvVars

\* processRequestFast from the route lookup to ctx.Next(); nothing is set on
\* the writer.
KeepAliveDispatch(c) == DispatchWith(c, FALSE)

\* The one deferred function of processRequestFast: recover(), then Context
\* and ResponseWriter are reset and put back. Nothing is written.
KeepAliveProcDefer(c) ==
    /\ task[c].pc = "procRelease"
    /\ contexts' = [contexts EXCEPT ![task[c].ctx] = contextReset(@)]
    /\ contextPool' = contextPool \cup {task[c].ctx}
    /\ writers' = [writers EXCEPT ![task[c].writer] = writerReset(@)]
    /\ responseWriterPool' = responseWriterPool \cup {task[c].writer}
    /\ task' = [task EXCEPT ![c] =
                  [@ EXCEPT !.pc = "release", !.panicking = FALSE,
                            !.taken = @ \ {<<"ctx", task[c].ctx>>,
                                           <<"writer", task[c].writer>>},
                            !.ctx = Nil, !.writer = Nil]]
    /\ UNCHANGED <<wire, requestPool, requests, accepted, carried>>
    /\ UNCHANGED <<routerVars, srvVars>>

\* ReleaseRequest(req) in the loop. The local req still refers to the
\* object.
KeepAliveRelease(c) ==
    /\ task[c].pc = "release"
    /\ requests' = [requests EXCEPT ![task[c].req] = requestReset(@)]
    /\ requestPool' = requestPool \cup {task[c].req}
    /\ task' = [task EXCEPT ![c] =
                  [@ EXCEPT !.pc = "shouldClose",
                            !.taken = @ \ {<<"req", task[c].req>>}]]
    /\ UNCHANGED <<wire, contextPool, responseWriterPool, contexts, writers,
                   accepted, carried>>
    /\ UNCHANGED <<routerVars, srvVars>>

\* shouldClose
shouldClose(req) == GetHeader(req.Headers, HdrConnection) = <<"close">>

\* s.shouldClose(req) in the loop. A request the task still owns is read as
\* it is; one it has released is read without synchronisation while the
\* pool may have handed it to the parser of another connection: the read
\* sees the object as reset, or the Connection header of a request of that
\* other connection.
KeepAliveShouldClose(c) ==
    /\ task[c].pc = "shouldClose"
    /\ \E seen \in IF <<"req", task[c].req>> \in task[c].taken
                    THEN {shouldClose(requests[task[c].req])}
                    ELSE BOOLEAN :
         task' = [task EXCEPT ![c] =
                  [@ EXCEPT !.pc = IF seen THEN "close" ELSE "loop",
                            !.staleRead =
                               @ \/ <<"req", task[c].req>> \notin task[c].taken,
                            !.req = Nil]]
    /\ UNCHANGED <<wire, requestPool, contextPool, responseWriterPool,
                   requests, contexts, writers, accepted, carried>>
    /\ UNCHANGED <<routerVars, srvVars>>

\* conn.Close() after the loop.
KeepAliveClose(c) ==
    /\ task[c].pc = "close"
    /\ wire' = [wire EXCEPT ![c] = connClose(@)]
    /\ task' = [task EXCEPT ![c].pc = "connDefer"]
    /\ UNCHANGED <<requestPool, contextPool, responseWriterPool, requests,
                   contexts, writers, accepted, carried>>
    /\ UNCHANGED <<routerVars, srvVars>>

\* The deferred function of handleConnectionFast: recover(), and nothing
\* else. The task has returned.
KeepAliveConnDefer(c) ==
    /\ task[c].pc = "connDefer"
    /\ task' = [task EXCEPT ![c] = [@ EXCEPT !.pc = "done",
                                             !.panicking = FALSE]]
    /\ UNCHANGED <<wire, requestPool, contextPool, responseWriterPool,
                   requests, contexts, writers, accepted, carried>>
    /\ UNCHANGED <<routerVars, srvVars>>

\* ---- Router: specifications -----------------------------------------------

\* Route templates and request paths, as character sequences.
T_root   == <<"/">>
T_a_b    == <<"/", "a", "/", "b">>
T_a_px   == <<"/", "a", "/", ":", "x">>
T_a_col  == <<"/", "a", "/", ":">>

P_root   == <<"/">>
P_a_b    == <<"/", "a", "/", "b">>
P_a_bs   == <<"/", "a", "/", "b", "/">>
P_a_col  == <<"/", "a", "/", ":">>
P_a_b_a  == <<"/", "a", "/", "b", "/", "a">>

Templates == {T_root, T_a_b, T_a_px, T_a_col}
Paths     == {P_root, P_a_b, P_a_bs, P_a_col, P_a_b_a}

\* A single caller: every call runs to completion before the next starts.
NextRouterSeq ==
    \/ \E m \in Methods, t \in Templates : AddRouteCall("p1", m, t)
    \/ \E m \in Methods, path \in Paths : FindRouteCall("p1", m, path)
    \/ RouterStep("p1")

\* A new router beside a server that has accepted no connection.
RouterServerInit ==
    /\ RouterInit
    /\ ConnInit
    /\ ServerIdle

SpecRouterSeq == RouterServerInit /\ [][NextRouterSeq]_vars

\* Concurrent callers, on one method and a few templates.
ConcTemplates == {T_a_b, T_a_px}
ConcPaths     == {P_a_b}

NextRouter ==
    \/ \E p \in Procs, t \in ConcTemplates : AddRouteCall(p, "GET", t)
    \/ \E p \in Procs : AddRoutesCall(p, "GET", T_a_b, T_a_px)
    \/ \E p \in Procs, path \in ConcPaths : FindRouteCall(p, "GET", path)
    \/ \E p \in Procs : RouterStep(p)

SpecRouter == RouterServerInit /\ [][NextRouter]_vars

\* ------------------------------------------------------------------------
\* Claims about the router
\* ------------------------------------------------------------------------

\* What the specification calls a structural match, stated on the template
\* and the path as written: split both on '/', same number of segments,
\* every segment of the template that is not a ':name' parameter equal to
\* the path's segment at that position.
RECURSIVE Segments(_, _)
Segments(s, cur) ==
    IF s = <<>> THEN <<cur>>
    ELSE IF Head(s) = "/" THEN <<cur>> \o Segments(Tail(s), <<>>)
    ELSE Segments(Tail(s), Append(cur, Head(s)))

SegmentsOf(s) == Segments(TrimSlash(s), <<>>)

IsParamSegment(seg) == Len(seg) > 1 /\ seg[1] = ":"

StructuralMatch(template, path) ==
    LET t == SegmentsOf(template)
        q == SegmentsOf(path)
    IN /\ Len(t) = Len(q)
       /\ \A i \in 1..Len(t) : IsParamSegment(t[i]) \/ t[i] = q[i]

BoundParams(template, path) ==
    LET t == SegmentsOf(template)
        q == SegmentsOf(path)
        at == {i \in 1..Len(t) : IsParamSegment(t[i])}
    IN [n \in {Tail(t[i]) : i \in at} |->
          q[CHOOSE i \in at : Tail(t[i]) = n]]

Candidates(list, path) ==
    {i \in 1..Len(list) : StructuralMatch(list[i].path, path)}

MinOf(S) == CHOOSE i \in S : \A j \in S : i <= j

\* C1: FindRoute(method, path) returns a route's handler with the params map
\* binding each ':name' to the path segment at its position if and only if a
\* route registered under that method has the same number of segments as the
\* path and equal literal segments; otherwise it returns (nil, nil).
C1_FindRouteIffStructuralMatch ==
    \A p \in Procs : res[p].done =>
        LET list  == routes[res[p].method]
            cands == Candidates(list, res[p].path)
        IN IF cands = {}
           THEN res[p].handler = NilHandler
           ELSE \E i \in cands :
                   /\ res[p].handler = list[i].handler
                   /\ res[p].params = BoundParams(list[i].path, res[p].path)

\* C2: when several routes of the method structurally match the path,
\* FindRoute returns the handler and params of the one registered earliest,
\* from the cache or not.
C2_EarliestStructuralMatchWins ==
    \A p \in Procs : res[p].done =>
        LET list  == routes[res[p].method]
            cands == Candidates(list, res[p].path)
        IN Cardinality(cands) >= 2 =>
              /\ res[p].handler = list[MinOf(cands)].handler
              /\ res[p].params = BoundParams(list[MinOf(cands)].path, res[p].path)

\* C25: the route cache never holds more than cacheSize entries, and a
\* putToCache that finds it at capacity leaves the new entry alone in it.
C25_CacheAtMostCacheSize ==
    [][/\ Cardinality(routeCache') <= cacheSize
       /\ (Cardinality(routeCache) >= cacheSize /\ routeCache' # routeCache
             /\ routeCache' # {}) =>
              /\ Cardinality(routeCache') = 1
              /\ routeCache' \cap routeCache = {}]_vars

\* A putToCache has found the cache at capacity, and its entry is the only
\* one.
C25_Witness ==
    \E e \in routeCache : e.flushed /\ routeCache = {e}

\* C3: once an AddRoute has returned, the cache holds no entry computed from
\* a route list that was read before that registration.
C3_NoEntryOlderThanRegistration ==
    \A e \in routeCache : e.ver >= completedLen[e.method]

\* C4: after AddRoute returns, a (method, path) that resolved to not-found
\* before and is matched by a route registered since resolves to that route's
\* handler, and every lookup returns what an uncached scan of the current
\* route list returns.
C4_LookupReflectsRegistration ==
    \A p \in Procs : res[p].done =>
        LET list == routes[res[p].method] IN
        /\ \A x \in missed :
              (x.method = res[p].method /\ x.path = res[p].path) =>
                 LET later == {i \in Candidates(list, res[p].path) : i > x.len}
                 IN later # {} => res[p].handler = list[MinOf(later)].handler
        /\ [handler |-> res[p].handler, params |-> res[p].params]
              = scanRoutes(list, res[p].path)

\* A caller that is inside a call and cannot take its next step because the
\* mutex it asks for is not available.
Blocked(p) ==
    \/ pc[p] = "add_muLock" /\ ~CanLock("mu", p)
    \/ pc[p] = "add_cacheLock" /\ ~CanLock(clearCacheMutex, p)
    \/ pc[p] = "find_getRLock" /\ ~CanRLock("cacheMu")
    \/ pc[p] = "find_muRLock" /\ ~CanRLock("mu")
    \/ pc[p] = "find_putLock" /\ ~CanLock("cacheMu", p)

Running == {p \in Procs : pc[p] # "idle"}

\* C5: no interleaving of AddRoute/AddRoutes and FindRoute calls reaches a
\* state in which every running call is blocked waiting for mu or cacheMu.
C5_NoDeadlock ==
    Running # {} => \E p \in Running : ~Blocked(p)

\* C5 witness: a registration holds mu and waits for cacheMu, which a lookup
\* holds for writing, while another lookup waits for mu.
C5_Witness ==
    \E p, q, r \in Procs :
        /\ pc[p] = "add_cacheLock" /\ locks["mu"].writer = p
        /\ pc[q] = "find_putWrite" /\ locks["cacheMu"].writer = q
        /\ pc[r] = "find_muRLock" /\ Blocked(r) /\ Blocked(p)

\* ------------------------------------------------------------------------
\* The connection task: specification
\* ------------------------------------------------------------------------

RequestLine(method, path) == <<method, SP>> \o path \o <<SP, "HTTP/1.1">> \o CRLF
HeaderLine(key, value) == <<key, ":", SP>> \o value \o CRLF

P_a_7 == <<"/", "a", "/", "7">>

M_get == RequestLine("GET", P_a_b) \o HeaderLine("Host", <<"h">>) \o CRLF
M_notFound == RequestLine("GET", P_a_b_a) \o CRLF
M_postHead == RequestLine("POST", P_a_7) \o HeaderLine("Content-Length", <<"2">>) \o CRLF
M_post == M_postHead \o <<"x", "y">>
M_short == M_postHead \o <<"x">>
M_large ==
    RequestLine("POST", P_a_7)
      \o HeaderLine("Content-Length", Itoa(MaxBodyBytes + 1)) \o CRLF
M_chunkedHead ==
    RequestLine("POST", P_a_7) \o HeaderLine("Transfer-Encoding", <<"chunked">>)
      \o CRLF
M_chunked == M_chunkedHead \o <<"2">> \o CRLF \o <<"x", "y">> \o CRLF
               \o <<"0">> \o CRLF \o CRLF
M_chunkBad == M_chunkedHead \o <<"z", "z">> \o CRLF
M_chunkTimeout == M_chunkedHead \o <<"timeout">> \o CRLF
M_chunkNegative == M_chunkedHead \o <<"-", "1">> \o CRLF
M_lineTimeout == <<"timeout">> \o CRLF
M_badMethod == RequestLine("FOO", P_a_b) \o CRLF
M_badMethodTimeout == RequestLine("TIMEOUT", P_a_b) \o CRLF
M_partial == RequestLine("POST", P_a_b) \o <<"Host", ":", SP, "h">>

\* A body of 10 MiB and one byte, under a Content-Length that says so and
\* under one of twenty digits.
TwentyNines == [i \in 1..20 |-> "9"]
OversizeBody == <<BLOCK, "x">>
M_largeBody == M_large \o OversizeBody
M_overflowHead ==
    RequestLine("POST", P_a_7) \o HeaderLine("Content-Length", TwentyNines)
      \o CRLF
M_overflow == M_overflowHead \o OversizeBody

\* What a client sends, and how its reads end once that is consumed.
Inputs ==
    { <<M_get, "EOF">>, <<M_notFound, "EOF">>, <<M_post, "EOF">>,
      <<M_short, "EOF">>, <<M_short, "timeout">>, <<M_short, "reset">>,
      <<M_large, "EOF">>, <<M_chunked, "EOF">>, <<M_chunkBad, "EOF">>,
      <<M_chunkTimeout, "EOF">>, <<M_chunkNegative, "EOF">>,
      <<M_lineTimeout, "EOF">>, <<M_badMethod, "EOF">>,
      <<M_badMethodTimeout, "EOF">>,
      <<(<<>>), "EOF">>, <<(<<>>), "timeout">>, <<(<<>>), "reset">>,
      <<M_partial, "EOF">>, <<M_partial, "reset">>,
      <<M_largeBody, "EOF">>, <<M_overflow, "EOF">> }

\* The server after its routes were registered and before Start().
ServerInit ==
    /\ routes = [m \in Methods |->
                   IF m = "GET"
                   THEN appendBatch(<<>>, "GET", << <<T_a_b, 1>>, <<T_a_px, 2>> >>)
                   ELSE <<>>]
    /\ routeCache = {}
    /\ locks = [l \in {"mu", "cacheMu"} |-> FreeLock]
    /\ pc = [p \in Procs |-> "idle"]
    /\ call = [p \in Procs |-> NoCall]
    /\ snap = [p \in Procs |-> NoSnap]
    /\ res = [p \in Procs |-> NoRes]
    /\ issued = 2
    /\ completedLen = [m \in Methods |-> Len(routes[m])]
    /\ missed = {}
    /\ ConnInit
    /\ ServerIdle

\* Connections are served one after the other by one worker: a task shares
\* nothing with another task but the pools and the route cache, and it
\* reaches those in single steps.
NextConn ==
    \/ \E in \in Inputs : Accept("w1", in[1], in[2])
    \/ ParseRequest("w1")
    \/ HandleParseError("w1")
    \/ DispatchNotFound("w1")
    \/ Dispatch("w1")
    \/ HandlerSet("w1", "k", "v")
    \/ HandlerSetHeader("w1", <<"X-A">>, <<"1">>)
    \/ HandlerJSON("w1", 200, <<"o", "k">>)
    \/ HandlerPanic("w1")
    \/ HandlerReturn("w1")
    \/ ProcRelease("w1")
    \/ ProcClose("w1")
    \/ Release("w1")
    \/ ConnDefer("w1")

SpecConn == ServerInit /\ [][NextConn]_vars

Returning(c) == task[c].pc \in {"connDefer", "done"}

Generic500 ==
    [status |-> 500, text |-> getStatusText(500),
     header |-> (HdrContentType :> ApplicationJSON)
                  @@ (HdrContentLength :>
                        Itoa(Len(errorBody(500, Words(<<"Internal", "Server", "Error">>)))))
                  @@ (HdrConnection :> <<"close">>),
     body |-> errorBody(500, Words(<<"Internal", "Server", "Error">>))]

\* C6: when the handler chain panicked, the task does not return before the
\* connection has received either what the handler itself had written or,
\* if it had written nothing, exactly the generic 500 response.
C6_HandlerPanicAnswered500 ==
    \A c \in Workers :
        (Returning(c) /\ task[c].handlerPanicked) =>
            \/ \E i \in 1..Len(wire[c].sent) : wire[c].sent[i].status = 200
            \/ wire[c].sent = <<Generic500>>

\* C7: when the parse failed on the grammar of the message (malformed request
\* line, invalid method, invalid chunk size, body too large), the connection
\* has received one 400 response by the time the task returns, whatever the
\* text of the offending line.
C7_GrammarFailureAnswered400 ==
    \A c \in Workers :
        (Returning(c) /\ task[c].err.cause = "grammar") =>
            /\ Len(wire[c].sent) = 1
            /\ wire[c].sent[1].status = 400

C9_ReturnsClosedAndReleased ==
    \A c \in Workers :
        task[c].pc = "done" => wire[c].closed /\ task[c].taken = {}

ErrorHeaderKeys == {HdrContentType, HdrContentLength, HdrConnection}

\* C10: an object taken from a pool shows nothing of an earlier use. The
\* request comes out of the pool without header entries, with an empty body
\* and cached content length 0, and after the parse it is what the parse of
\* the same bytes into a new request gives; right after fastInit the context
\* has no Values and the writer has no header entries and status 200; an
\* error response carries the three headers of sendErrorFast and no other.
C10_ReuseExposesNothing ==
    \A c \in Workers :
        /\ task[c].view.req.Headers = EmptyMap
        /\ task[c].view.req.Body = <<>>
        /\ task[c].view.req.contentLength = 0
        /\ task[c].view.Values = EmptyMap
        /\ task[c].view.header = EmptyMap
        /\ task[c].view.status = 200
        /\ (task[c].req # Nil /\ ~task[c].parserPanicked) =>
              requests[task[c].req] =
                 [parseRequestInto(newRequest, task[c].input, task[c].end).req
                    EXCEPT !.parsed = TRUE]
        /\ \A i \in 1..Len(wire[c].sent) :
              wire[c].sent[i].status # 200 =>
                 DOMAIN wire[c].sent[i].header = ErrorHeaderKeys

\* A handler runs on a request, a context and a writer that all came out of
\* their pools after an earlier request had left data in them.
C10_Witness ==
    \E c \in Workers :
        /\ task[c].pc = "handler"
        /\ task[c].reused = {"req", "ctx", "writer"}

\* The requests of the model that declare more than 10 MiB: what precedes
\* the body, and the body.
Oversize ==
    { [head |-> M_large, body |-> <<>>],
      [head |-> M_large, body |-> OversizeBody],
      [head |-> M_overflowHead, body |-> OversizeBody] }

\* C16: a request whose Content-Length declares more than 10 MiB is refused
\* by ParseRequest with the body left unread on the connection; the
\* connection receives one 400 response and is closed when the task has
\* returned.
C16_OversizeRejectedUnread ==
    \A c \in Workers : \A o \in Oversize :
        (task[c].input = o.head \o o.body /\ task[c].pc \notin {"idle", "parse"}) =>
            /\ task[c].err.cause = "grammar"
            /\ task[c].stream = o.body
            /\ Returning(c) =>
                  Len(wire[c].sent) = 1 /\ wire[c].sent[1].status = 400
            /\ task[c].pc = "done" => wire[c].closed

\* C20: a request for which FindRoute returns no handler is answered 404,
\* without a Context taken from the pool and without a handler invoked, and
\* its connection is closed only if the request asked for Connection: close.
C20_NotFoundKeepsConnection ==
    \A c \in Workers :
        task[c].notFound =>
            /\ wire[c].sent # <<>>
            /\ wire[c].sent[Len(wire[c].sent)].status = 404
            /\ task[c].ctx = Nil
            /\ task[c].taken \cap CtxIds = {}
            /\ ~task[c].handlerPanicked
            /\ wire[c].closed => task[c].closeAsked

\* ------------------------------------------------------------------------
\* The connection task with the keep-alive loop: specification
\* ------------------------------------------------------------------------

M_getClose ==
    RequestLine("GET", P_a_b) \o HeaderLine("Connection", <<"close">>) \o CRLF
M_notFoundClose ==
    RequestLine("GET", P_a_b_a) \o HeaderLine("Connection", <<"close">>) \o CRLF

\* What a client sends on one connection: requests one after the other.
KeepAliveInputs ==
    { <<M_get \o M_get, "EOF">>, <<M_getClose \o M_get, "EOF">>,
      <<M_notFound \o M_get, "timeout">>, <<M_notFoundClose \o M_get, "EOF">>,
      <<M_post \o M_getClose, "EOF">>, <<M_chunked \o M_get, "EOF">>,
      <<M_chunkNegative, "EOF">>, <<M_badMethod \o M_get, "EOF">>,
      <<(<<>>), "timeout">> }

NextKeepAlive ==
    \/ \E in \in KeepAliveInputs : KeepAliveAccept("w1", in[1], in[2])
    \/ KeepAliveLoop("w1")
    \/ ParseRequest("w1")
    \/ KeepAliveParseError("w1")
    \/ KeepAliveNotFound("w1")
    \/ KeepAliveDispatch("w1")
    \/ HandlerJSON("w1", 200, <<"o", "k">>)
    \/ HandlerPanic("w1")
    \/ HandlerReturn("w1")
    \/ KeepAliveProcDefer("w1")
    \/ KeepAliveRelease("w1")
    \/ KeepAliveShouldClose("w1")
    \/ KeepAliveClose("w1")
    \/ KeepAliveConnDefer("w1")
    \/ ShutdownCancel
    \/ ShutdownRelease

SpecKeepAlive == ServerInit /\ [][NextKeepAlive]_vars

\* C11: a connection task reads no field of an HTTPRequest that it has
\* released; whether it closes the connection is decided on the headers the
\* request had when it was received.
C11_NoReadAfterRelease ==
    \A c \in Workers :
        /\ ~task[c].staleRead
        /\ task[c].pc = "shouldClose" =>
              shouldClose(requests[task[c].req]) = task[c].closeAsked

\* C12: after a request with Connection: close has been parsed, the task
\* does not go back to the head of its loop and does not call the parser
\* again, and when it has returned the connection is closed.
C12_CloseAfterConnectionClose ==
    \A c \in Workers :
        /\ ~task[c].readOn
        /\ task[c].closeAsked =>
              /\ task[c].pc \notin {"loop", "parse"}
              /\ task[c].pc = "done" => wire[c].closed

\* ------------------------------------------------------------------------
\* Start and Shutdown: specification
\* ------------------------------------------------------------------------

NextStart ==
    \/ StartListen
    \/ \E k \in Clients : ClientConnect(k)
    \/ StartSelect
    \/ \E k \in Clients : StartAccept(k)
    \/ \E temporary \in BOOLEAN : StartAcceptError(temporary)
    \/ StartSubmit
    \/ \E k \in Clients : TaskReturn(k)
    \/ ShutdownCancel
    \/ ShutdownRelease

SpecStart == ServerInit /\ [][NextStart]_vars

C14_AtMostCapacityTasks == Cardinality(antsPool.running) <= PoolCapacity

\* The pool is at capacity and not released, and the loop has accepted one
\* more connection: Submit waits with it and no task is started.
C14_Witness ==
    /\ Cardinality(antsPool.running) = PoolCapacity
    /\ ~antsPool.closed
    /\ acceptLoop.pc = "submit"
    /\ conns[acceptLoop.conn] = "accepted"

\* C15: once a call of Shutdown() has returned, the accept loop takes no
\* further connection: Accept returns none to it.
C15_NoAcceptAfterShutdown == acceptLoop.late = {}

\* ------------------------------------------------------------------------
\* A parser on a byte source: messages as a client writes them, one after
\* the other on one connection, and ParseRequest called on them
\* ------------------------------------------------------------------------

\* The longest body of the model, one byte longer than the parser's first
\* chunkBuffer; CR and LF are among its bytes.
LongBody ==
    [i \in 1..(ChunkBufferCap + 1) |-> <<"x", LF, "y", CR>>[((i - 1) % 4) + 1]]

\* A body of 10 MiB and one of 10 MiB and one byte are the bodies around
\* the cap.
Bodies == { <<>>, <<"x">>, LongBody, <<BLOCK>>, OversizeBody }

\* Every way of cutting a body into non-empty chunks.
RECURSIVE Splits(_)
Splits(B) ==
    IF B = <<>> THEN { <<>> }
    ELSE UNION { { <<SubSeq(B, 1, k)>> \o rest :
                   rest \in Splits(SubSeq(B, k + 1, Len(B))) } :
                 k \in 1..Len(B) }

\* The chunks as a client writes them: size in hexadecimal, CR LF, the
\* bytes, CR LF; then the zero-size chunk and an empty trailer.
RECURSIVE EncodeChunks(_)
EncodeChunks(chunks) ==
    IF chunks = <<>> THEN <<"0">> \o CRLF \o CRLF
    ELSE FormatHex(ByteLen(Head(chunks))) \o CRLF \o Head(chunks) \o CRLF
           \o EncodeChunks(Tail(chunks))

\* The header lines of a message: those of the sender and the one that
\* frames the body.
AllLines(msg) ==
    msg.headers
      \o (CASE msg.framing = "length" ->
                 << <<msg.clKey, Itoa(ByteLen(msg.body))>> >>
            [] msg.framing = "chunked" ->
                 << <<"Transfer-Encoding", <<"chunked">>>> >>
            [] OTHER -> <<>>)

RECURSIVE EncodeLines(_)
EncodeLines(lines) ==
    IF lines = <<>> THEN <<>>
    ELSE HeaderLine(Head(lines)[1], Head(lines)[2]) \o EncodeLines(Tail(lines))

Target(msg) ==
    msg.path \o (IF msg.query = <<>> THEN <<>> ELSE <<"?">> \o msg.query)

Encode(msg) ==
    RequestLine(msg.method, Target(msg)) \o EncodeLines(AllLines(msg)) \o CRLF
      \o (IF msg.framing = "chunked" THEN EncodeChunks(msg.chunks)
          ELSE msg.body)

\* What the header lines say: for each name, the value of its last line.
SentHeaders(lines) ==
    [k \in { <<lines[i][1]>> : i \in 1..Len(lines) } |->
        lines[CHOOSE i \in 1..Len(lines) :
                 /\ <<lines[i][1]>> = k
                 /\ \A j \in (i + 1)..Len(lines) : <<lines[j][1]>> # k][2]]

HeaderLists ==
    { <<>>,
      << <<"Host", <<"h">>>> >>,
      << <<"X-A", <<"1">>>>, <<"Host", <<"h">>>>, <<"X-A", <<"2">>>> >> }

Framings ==
    { [framing |-> "none", clKey |-> "", body |-> <<>>, chunks |-> <<>>] }
    \cup { [framing |-> "length", clKey |-> k, body |-> B, chunks |-> <<>>] :
           k \in {"Content-Length", "content-length"}, B \in Bodies }
    \cup UNION { { [framing |-> "chunked", clKey |-> "", body |-> B,
                    chunks |-> cs] : cs \in Splits(B) } : B \in Bodies }

Messages ==
    { [method |-> m, path |-> p, query |-> q, headers |-> hs,
       framing |-> f.framing, clKey |-> f.clKey, body |-> f.body,
       chunks |-> f.chunks] :
      m \in {"GET", "POST"}, p \in {P_root, P_a_b},
      q \in {<<>>, <<"k", "=", "v">>}, hs \in HeaderLists, f \in Framings }

\* What follows a message on the connection: nothing, or the next request.
Pipelined == { <<>>, M_get }

\* HTTPParser.ParseRequest on a parser whose reader holds stream: a request
\* from the pool, filled and marked parsed, or the request released and
\* the error.
parserParseRequest(stream) ==
    Only({ IF r.st = "ok"
           THEN [st |-> "ok", err |-> NoErr,
                 req |-> [r.req EXCEPT !.parsed = TRUE], rest |-> r.rest]
           ELSE [st |-> r.st, err |-> r.err, req |-> Nil, rest |-> r.rest] :
           r \in {parseRequestInto(newRequest, stream, "EOF")} })

\* NewHTTPParser(conn) on a connection on which the client has written msg
\* and then next.
NewHTTPParser(msg, next) ==
    /\ parsing.pc = "idle"
    /\ parsing' = [pc |-> "parse", msg |-> msg, next |-> next,
                   stream |-> Encode(msg) \o next, results |-> <<>>]
    /\ UNCHANGED <<routerVars, connVars>>
    /\ UNCHANGED <<serverDone, antsPool, acceptLoop, shutdownCall, conns,
                   pipeline>>

\* p.ParseRequest(): the first call, and the second after a first that
\* returned a request.
ParserParseRequest ==
    /\ parsing.pc = "parse"
    /\ \/ parsing.results = <<>>
       \/ Len(parsing.results) = 1 /\ parsing.results[1].st = "ok"
    /\ \E r \in {parserParseRequest(parsing.stream)} :
          parsing' = [parsing EXCEPT
                        !.stream = r.rest,
                        !.results = Append(@, [st |-> r.st, err |-> r.err,
                                               req |-> r.req])]
    /\ UNCHANGED <<routerVars, connVars>>
    /\ UNCHANGED <<serverDone, antsPool, acceptLoop, shutdownCall, conns,
                   pipeline>>

\* The caller is done with the parser.
ParserDrop ==
    /\ parsing.pc = "parse"
    /\ parsing.results # <<>>
    /\ parsing' = NoParsing
    /\ UNCHANGED <<routerVars, connVars>>
    /\ UNCHANGED <<serverDone, antsPool, acceptLoop, shutdownCall, conns,
                   pipeline>>

NextParser ==
    \/ \E msg \in Messages, next \in Pipelined : NewHTTPParser(msg, next)
    \/ ParserParseRequest
    \/ ParserDrop

SpecParser == ServerInit /\ [][NextParser]_vars

\* The first ParseRequest of the parser has returned.
Parsed == parsing.pc = "parse" /\ parsing.results # <<>>

C18_PositionedAfterMessage ==
    (Parsed /\ parsing.results[1].st = "ok") =>
        /\ Len(parsing.results) = 1 => parsing.stream = parsing.next
        /\ Len(parsing.results) = 2 =>
              \E alone \in {parserParseRequest(parsing.next)} :
                  /\ parsing.results[2].st = alone.st
                  /\ parsing.results[2].req = alone.req

\* C19: a request line, header lines and a body of the length that
\* Content-Length states give a request with the method, the path, the raw
\* query, the headers (the last value of a repeated name) and the body
\* that were sent.
C19_ParsedEqualsSent ==
    (Parsed /\ parsing.msg.framing = "length") =>
        /\ parsing.results[1].st = "ok"
        /\ parsing.results[1].req.Method = <<parsing.msg.method>>
        /\ parsing.results[1].req.URL.Path = parsing.msg.path
        /\ parsing.results[1].req.URL.RawQuery = parsing.msg.query
        /\ parsing.results[1].req.Headers = SentHeaders(AllLines(parsing.msg))
        /\ parsing.results[1].req.Body = parsing.msg.body

\* ------------------------------------------------------------------------
\* The responses of a connection task: a handler that sets headers and
\* writes bodies of different lengths, and the server's own 400, 404, 500
\* ------------------------------------------------------------------------

WriterInputs == { <<M_get, "EOF">>, <<M_notFound, "EOF">>, <<M_badMethod, "EOF">> }

NextWriter ==
    \/ \E in \in WriterInputs : Accept("w1", in[1], in[2])
    \/ ParseRequest("w1")
    \/ HandleParseError("w1")
    \/ DispatchNotFound("w1")
    \/ Dispatch("w1")
    \/ HandlerSetHeader("w1", HdrContentLength, <<"7">>)
    \/ \E jsonData \in { <<>>, <<"o", "k">> } : HandlerJSON("w1", 200, jsonData)
    \/ HandlerPanic("w1")
    \/ HandlerReturn("w1")
    \/ ProcRelease("w1")
    \/ ProcClose("w1")
    \/ Release("w1")
    \/ ConnDefer("w1")

SpecWriter == ServerInit /\ [][NextWriter]_vars

\* The Content-Length that the writer of task c holds as the handler
\* writes; the server's own responses start from an empty header map.
heldLength(c) ==
    IF task[c].pc = "handler"
    THEN GetHeader(writers[task[c].writer].header, HdrContentLength)
    ELSE <<>>

\* C21: every response that goes to a connection, the handler's and the
\* server's 400, 404 and 500 alike, has a Content-Length and a Connection
\* header; Content-Length is the length of the body when the writer's
\* header map held none, and the value the map held otherwise.
C21_LengthAndConnectionOnEveryResponse ==
    [][\A c \in Workers :
          Len(wire'[c].sent) > Len(wire[c].sent) =>
              \E msg \in {wire'[c].sent[Len(wire'[c].sent)]} :
                  /\ HdrConnection \in DOMAIN msg.header
                  /\ msg.header[HdrConnection] # <<>>
                  /\ HdrContentLength \in DOMAIN msg.header
                  /\ msg.header[HdrContentLength] =
                        IF heldLength(c) # <<>> THEN heldLength(c)
                        ELSE Itoa(Len(msg.body))]_vars

\* A handler has written an empty body, for which the length was injected,
\* and then a body of two bytes under the length that the map then held.
C21_Witness ==
    \E c \in Workers :
        /\ Len(wire[c].sent) = 2
        /\ wire[c].sent[1].header[HdrContentLength] = <<"0">>
        /\ wire[c].sent[2].header[HdrContentLength] = <<"0">>
        /\ wire[c].sent[2].body = <<"o", "k">>

\* ------------------------------------------------------------------------
\* Middlewares, route groups and the handler chain of one request
\* ------------------------------------------------------------------------

\* The most middlewares registered with Use, and the most of a route group.
MaxMiddlewares == 2

\* Logger and Recovery call next(c) and go on after it; Auth calls next(c)
\* only for a request with a bearer token; GinStyle is a middleware that
\* calls c.Next() where it should call next(c).
MiddlewareNames == {"Logger", "Recovery", "Auth", "GinStyle"}

\* getUsers answers; reenter is a handler that calls c.Next().
HandlerNames == {"getUsers", "reenter"}

MiddlewareLists ==
    UNION { [1..n -> MiddlewareNames] : n \in 0..MaxMiddlewares }

\* A HandlerFunc is the sequence of the closures it is made of, outermost
\* first; the route's own handler is the last. middleware(next):
applyMiddleware(m, next) == <<m>> \o next

\* A loop that wraps with the first middleware first.
RECURSIVE wrapForward(_, _, _)
wrapForward(ms, i, wrapped) ==
    IF i > Len(ms) THEN wrapped
    ELSE wrapForward(ms, i + 1, applyMiddleware(ms[i], wrapped))

wrapHandler_forward(ms, handler) == wrapForward(ms, 1, handler)

\* for i := len(ms) - 1; i >= 0; i-- { wrapped = ms[i](wrapped) }
RECURSIVE wrapLoop(_, _, _)
wrapLoop(ms, i, wrapped) ==
    IF i < 1 THEN wrapped
    ELSE wrapLoop(ms, i - 1, applyMiddleware(ms[i], wrapped))

\* RouteGroup.wrapHandler
wrapHandler(ms, handler) ==
    IF Len(ms) = 0 THEN handler ELSE wrapLoop(ms, Len(ms), handler)

\* HTTPServer.findRouteHandler once FindRoute has returned handler.
findRouteHandler(middlewares, handler) ==
    IF Len(middlewares) > 0 THEN wrapLoop(middlewares, Len(middlewares), handler)
    ELSE handler

\* A Next that advances the cursor and invokes nothing.
contextNext_idle(ctx) ==
    [ctx |-> [ctx EXCEPT !.Index = @ + 1], invoke |-> <<>>]

\* Context.Next: the context with the cursor advanced and the HandlerFunc
\* it invokes, <<>> when it invokes none.
contextNext(ctx) ==
    [ctx |-> [ctx EXCEPT !.Index = @ + 1],
     invoke |-> IF ctx.Index + 1 < Len(ctx.handlers)
                THEN ctx.handlers[ctx.Index + 2] ELSE <<>>]

Event(ev, step, index) == [ev |-> ev, step |-> step, index |-> index]

callsNextFunc(name, authorized) ==
    name \in {"Logger", "Recovery"} \/ (name = "Auth" /\ authorized)

\* The run of a HandlerFunc h on a context: run is the context and the
\* events so far. invoke enters h; callNext is a call of c.Next().
RECURSIVE invoke(_, _, _)
RECURSIVE callNext(_, _)
invoke(h, run, authorized) ==
    Only({
      Only({ [ctx |-> done.ctx,
              trace |-> Append(done.trace, Event("return", h[1], -1))] :
             done \in { CASE h[1] \in {"GinStyle", "reenter"} ->
                               callNext(entered, authorized)
                          [] callsNextFunc(h[1], authorized) /\ Len(h) > 1 ->
                               invoke(Tail(h), entered, authorized)
                          [] OTHER -> entered } }) :
      entered \in { [ctx |-> run.ctx,
                     trace |-> Append(run.trace, Event("enter", h[1], -1))] } })

callNext(run, authorized) ==
    Only({
      Only({ IF n.invoke = <<>> THEN called
             ELSE invoke(n.invoke, called, authorized) :
             called \in { [ctx |-> n.ctx,
                           trace |-> Append(run.trace,
                                        Event("Next",
                                              IF n.invoke = <<>> THEN ""
                                              ELSE n.invoke[1],
                                              n.ctx.Index))] } }) :
      n \in {contextNext(run.ctx)} })

PipelineUnchanged ==
    /\ UNCHANGED <<routerVars, connVars>>
    /\ UNCHANGED <<serverDone, antsPool, acceptLoop, shutdownCall, conns,
                   parsing>>

\* A Use that puts the middleware in front of the others.
Use_prepend(middleware) ==
    /\ pipeline.pc = "setup"
    /\ Len(pipeline.middlewares) < MaxMiddlewares
    /\ pipeline' = [pipeline EXCEPT !.middlewares = <<middleware>> \o @]
    /\ PipelineUnchanged

\* HTTPServer.Use
Use(middleware) ==
    /\ pipeline.pc = "setup"
    /\ Len(pipeline.middlewares) < MaxMiddlewares
    /\ pipeline' = [pipeline EXCEPT !.middlewares = Append(@, middleware)]
    /\ PipelineUnchanged

\* HTTPServer.GET
ServerGET(handler) ==
    /\ pipeline.pc = "setup"
    /\ pipeline.route = <<>>
    /\ pipeline' = [pipeline EXCEPT !.handler = handler, !.route = <<handler>>]
    /\ PipelineUnchanged

\* HTTPServer.Group(prefix, ms...) and RouteGroup.GET on the group.
GroupGET(ms, handler) ==
    /\ pipeline.pc = "setup"
    /\ pipeline.route = <<>>
    /\ pipeline' = [pipeline EXCEPT !.group = ms, !.handler = handler,
                                    !.route = wrapHandler(ms, <<handler>>)]
    /\ PipelineUnchanged

\* processRequestFast for a request that matches the route: the handler of
\* findRouteHandler, ctx.fastInit and ctx.Next().
ProcessRequest(authorized) ==
    /\ pipeline.pc = "setup"
    /\ pipeline.route # <<>>
    /\ \E run \in { callNext(
                      [ctx |-> contextFastInit(newContext, "conn", "req",
                                  "writer", EmptyParams,
                                  findRouteHandler(pipeline.middlewares,
                                                   pipeline.route)),
                       trace |-> <<>>], authorized) } :
          pipeline' = [pipeline EXCEPT !.pc = "served",
                                       !.authorized = authorized,
                                       !.ctx = run.ctx, !.trace = run.trace]
    /\ PipelineUnchanged

NextPipeline ==
    \/ \E m \in MiddlewareNames : Use(m)
    \/ \E h \in HandlerNames : ServerGET(h)
    \/ \E ms \in MiddlewareLists, h \in HandlerNames : GroupGET(ms, h)
    \/ \E authorized \in BOOLEAN : ProcessRequest(authorized)

SpecPipeline == ServerInit /\ [][NextPipeline]_vars

Served == pipeline.pc = "served"

\* The steps in registration order: the global middlewares, the group's,
\* the route's handler.
Registered == pipeline.middlewares \o pipeline.group \o <<pipeline.handler>>

EnterEvents == SelectSeq(pipeline.trace, LAMBDA e : e.ev = "enter")

\* The steps that were entered, in the order in which they were.
Entered == [i \in 1..Len(EnterEvents) |-> EnterEvents[i].step]

AllCallNext ==
    \A i \in 1..(Len(Registered) - 1) :
        callsNextFunc(Registered[i], pipeline.authorized)

\* C22: the steps of a request run in the order global middlewares as
\* registered with Use, then the group's middlewares in their order, then
\* the route's handler last: the steps entered are the first of that order,
\* and all of it when every middleware calls next.
C22_GlobalThenGroupThenHandler ==
    Served =>
        /\ Len(Entered) <= Len(Registered)
        /\ Entered = SubSeq(Registered, 1, Len(Entered))
        /\ AllCallNext => Entered = Registered

\* Two global and two group middlewares, all different in their layer, have
\* run around the handler.
C22_Witness ==
    /\ Served
    /\ Len(pipeline.middlewares) = 2
    /\ pipeline.middlewares[1] # pipeline.middlewares[2]
    /\ Len(pipeline.group) = 2
    /\ pipeline.group[1] # pipeline.group[2]
    /\ pipeline.group # pipeline.middlewares
    /\ Entered = Registered

NextEvents == SelectSeq(pipeline.trace, LAMBDA e : e.ev = "Next")

\* C23: a call of Next invokes the step under the advanced cursor if there
\* is one and nothing otherwise, no position is invoked twice, and after a
\* step that returns without calling next no further step is entered.
C23_NextInvokesAtMostOnce ==
    Served =>
        /\ \A i \in 1..Len(NextEvents) :
              /\ NextEvents[i].index = i - 1
              /\ NextEvents[i].step # "" <=>
                    NextEvents[i].index < Len(pipeline.ctx.handlers)
              /\ NextEvents[i].step # "" =>
                    NextEvents[i].step =
                       pipeline.ctx.handlers[NextEvents[i].index + 1][1]
        /\ \A i \in 1..Len(pipeline.trace) :
              (/\ pipeline.trace[i].ev = "enter"
               /\ pipeline.trace[i].step \in MiddlewareNames
               /\ ~callsNextFunc(pipeline.trace[i].step, pipeline.authorized)) =>
                  \A j \in (i + 1)..Len(pipeline.trace) :
                      pipeline.trace[j].ev # "enter"

\* A middleware has returned without calling next, two steps from the
\* handler, and a call of Next beyond the chain has invoked nothing.
C23_Witness ==
    /\ Served
    /\ Len(Registered) >= 3
    /\ Len(Entered) = 1
    /\ \E i \in 1..Len(NextEvents) :
          NextEvents[i].step = "" /\ NextEvents[i].index >= 1

\* ------------------------------------------------------------------------
\* The route /static/*filepath of the example, and paths at and below it
\* ------------------------------------------------------------------------

T_static == <<"/", "static", "/", "*", "filepath">>

StaticTemplates == {T_static, T_a_px}

StaticPaths ==
    { T_static, T_static \o <<"/">>, T_static \o <<"/", "y">>,
      <<"/", "static">>, <<"/", "static", "/", "*">>,
      <<"/", "static", "/", "x">>, <<"/", "static", "/", "x", "/", "y">>,
      <<"/", "static", "/", "filepath">> }

NextStatic ==
    \/ \E t \in StaticTemplates : AddRouteCall("p1", "GET", t)
    \/ \E path \in StaticPaths \cup {P_a_b} : FindRouteCall("p1", "GET", path)
    \/ RouterStep("p1")

SpecStatic == RouterServerInit /\ [][NextStatic]_vars

\* The handlers registered under the template /static/*filepath.
StarHandlers(method) ==
    { routes[method][i].handler :
        i \in { j \in 1..Len(routes[method]) : routes[method][j].path = T_static } }

MaxChunks == 2

\* 7fffffffffffffff, the largest chunk size that ParseInt(s, 16, 64) accepts,
\* and 8000000000000000, the first it rejects.
HexMaxInt64 == <<"7">> \o [i \in 1..15 |-> "f"]
HexOverInt64 == <<"8">> \o [i \in 1..15 |-> "0"]

\* Chunks whose size line is the length of their data.
GoodChunks ==
    { [size |-> <<"1">>, data |-> <<"x">>],
      [size |-> <<"0", "2">>, data |-> <<"x", "y">>],
      [size |-> FormatHex(MaxBodyBytes), data |-> <<BLOCK>>] }

\* Chunks that announce more than there can be.
LargeChunks ==
    { [size |-> FormatHex(MaxBodyBytes + 1), data |-> OversizeBody],
      [size |-> HexMaxInt64, data |-> <<"x">>],
      [size |-> HexOverInt64, data |-> <<"x">>] }

\* Chunk-size lines that are not a hexadecimal number: empty, other
\* characters, a chunk extension, a sign.
BadLineChunks ==
    { [size |-> <<>>, data |-> <<"x">>],
      [size |-> <<"z", "z">>, data |-> <<"x">>],
      [size |-> <<"1", ";", "ext">>, data |-> <<"x">>],
      [size |-> <<"+", "1">>, data |-> <<"x">>],
      [size |-> <<"-", "1">>, data |-> <<"x">>] }

\* A chunk whose data ends before its size is reached.
ShortChunk == [size |-> <<"2">>, data |-> <<"x">>]

AnyChunks == GoodChunks \cup LargeChunks \cup BadLineChunks

\* A body: its chunks, and whether the zero-size chunk and the empty trailer
\* follow or the connection ends after a last, short chunk.
Scripts ==
    UNION { { [chunks |-> cs, ending |-> "zero"] : cs \in [1..n -> AnyChunks] } :
            n \in 1..MaxChunks }
    \cup UNION { { [chunks |-> Append(cs, ShortChunk), ending |-> "cut"] :
                   cs \in [1..n -> GoodChunks] } : n \in 0..(MaxChunks - 1) }

RECURSIVE EncodeScript(_)
EncodeScript(chunks) ==
    IF chunks = <<>> THEN <<>>
    ELSE Head(chunks).size \o CRLF \o Head(chunks).data \o CRLF
           \o EncodeScript(Tail(chunks))

EncodeRaw(script) ==
    M_chunkedHead
      \o (IF script.ending = "zero"
          THEN EncodeScript(script.chunks) \o <<"0">> \o CRLF \o CRLF
          ELSE EncodeScript(SubSeq(script.chunks, 1, Len(script.chunks) - 1))
                 \o ShortChunk.size \o CRLF \o ShortChunk.data)

\* NewHTTPParser(conn) on a connection on which the client has written a
\* request with the chunked body of the script.
NewHTTPParserRaw(script) ==
    /\ parsing.pc = "idle"
    /\ parsing' = [pc |-> "parse",
                   msg |-> [framing |-> "raw", script |-> script],
                   next |-> <<>>, stream |-> EncodeRaw(script),
                   results |-> <<>>]
    /\ UNCHANGED <<routerVars, connVars>>
    /\ UNCHANGED <<serverDone, antsPool, acceptLoop, shutdownCall, conns,
                   pipeline>>

NextChunks ==
    \/ \E script \in Scripts : NewHTTPParserRaw(script)
    \/ ParserParseRequest
    \/ ParserDrop

SpecChunks == ServerInit /\ [][NextChunks]_vars

ParsedRaw == Parsed /\ parsing.msg.framing = "raw"

\* A chunk-size line of hexadecimal digits only.
IsHexLine(size) == size # <<>> /\ \A i \in 1..Len(size) : IsHexDigit(size[i])

\* The value of a hexadecimal numeral of at most six significant digits; a
\* longer one is more than 10 MiB, which has six.
RECURSIVE hexValueOf(_, _)
hexValueOf(size, acc) ==
    IF size = <<>> THEN acc
    ELSE hexValueOf(Tail(size), acc * 16 + HexValue(Head(size)))

ExceedsAlone(size) == Len(Significant(size)) > 6

\* Whether the sizes of the chunks, added up as numbers, come to more than
\* 10 MiB.
RECURSIVE SumExceeds(_, _)
SumExceeds(chunks, sum) ==
    IF chunks = <<>> THEN FALSE
    ELSE IF ExceedsAlone(Head(chunks).size) THEN TRUE
    ELSE IF sum + hexValueOf(Head(chunks).size, 0) > MaxBodyBytes THEN TRUE
    ELSE SumExceeds(Tail(chunks), sum + hexValueOf(Head(chunks).size, 0))

\* The chunks before the first that is not a good chunk are all of them.
AllSizesInRange(chunks) ==
    \A i \in 1..Len(chunks) :
        /\ IsHexLine(chunks[i].size)
        /\ chunks[i].size # HexOverInt64
        /\ chunks[i] \in LargeChunks => \A j \in 1..(i - 1) : chunks[j] \in GoodChunks

TooLargeError(err) ==
    Contains(err.msg, Words(<<"chunked", "body", "too", "large">>))

\* C26: whatever sizes the chunk-size lines state, up to 7fffffffffffffff,
\* the decoded body is never longer than 10 MiB, the parse fails with the
\* too-large error as soon as the sizes add up to more than 10 MiB, and the
\* running total does not wrap around: the parse does not end in a slice
\* out of range.
C26_ChunkTotalCapped ==
    (ParsedRaw /\ parsing.msg.script.ending = "zero"
       /\ AllSizesInRange(parsing.msg.script.chunks)) =>
        /\ parsing.results[1].st # "panic"
        /\ SumExceeds(parsing.msg.script.chunks, 0) =>
              /\ parsing.results[1].st = "err"
              /\ TooLargeError(parsing.results[1].err)
        /\ parsing.results[1].st = "ok" =>
              ByteLen(parsing.results[1].req.Body) <= MaxBodyBytes

\* The first chunk whose size line is not a hexadecimal number, when the
\* chunks before it are good ones; 0 when there is none.
FirstBadLine(chunks) ==
    LET bad == { i \in 1..Len(chunks) :
                   /\ chunks[i] \in BadLineChunks
                   /\ \A j \in 1..(i - 1) : chunks[j] \in GoodChunks
                   /\ ~SumExceeds(SubSeq(chunks, 1, i - 1), 0) }
    IN IF bad = {} THEN 0 ELSE CHOOSE i \in bad : TRUE

\* C27: a chunked body that ends inside a chunk, or has a chunk-size line
\* that is empty, not hexadecimal, extended or signed, makes ParseRequest
\* return an error and no request, without a panic.
C27_BadChunkIsAnError ==
    (ParsedRaw /\ (\/ parsing.msg.script.ending = "cut"
                   \/ FirstBadLine(parsing.msg.script.chunks) # 0)) =>
        /\ parsing.results[1].st = "err"
        /\ parsing.results[1].req = Nil

\* ------------------------------------------------------------------------
\* A parser on request lines as any client may write them
\* ------------------------------------------------------------------------

\* The most tokens of a request line.
MaxLineTokens == 4

LineAlphabet == {"GET", "get", "FOO", SP, "/", "a", "HTTP/1.0"}

RequestLines == UNION { [1..n -> LineAlphabet] : n \in 0..MaxLineTokens }

\* NewHTTPParser(conn) on a connection on which the client has written the
\* request line and an empty header block.
NewHTTPParserLine(line) ==
    /\ parsing.pc = "idle"
    /\ parsing' = [pc |-> "parse",
                   msg |-> [framing |-> "line", line |-> line],
                   next |-> <<>>, stream |-> line \o CRLF \o CRLF,
                   results |-> <<>>]
    /\ UNCHANGED <<routerVars, connVars>>
    /\ UNCHANGED <<serverDone, antsPool, acceptLoop, shutdownCall, conns,
                   pipeline>>

NextLines ==
    \/ \E line \in RequestLines : NewHTTPParserLine(line)
    \/ ParserParseRequest
    \/ ParserDrop

SpecLines == ServerInit /\ [][NextLines]_vars

ParsedLine == Parsed /\ parsing.msg.framing = "line"

\* The places of the spaces of a line: a line of n spaces has n + 1
\* space-separated tokens.
SpacesOf(line) == {i \in 1..Len(line) : line[i] = SP}

\* What stands before the first space of a line.
FirstToken(line) ==
    IF SpacesOf(line) = {} THEN line
    ELSE SubSeq(line, 1,
                (CHOOSE i \in SpacesOf(line) : \A j \in SpacesOf(line) : i <= j)
                  - 1)

\* The nine verbs, in capitals and in small letters.
VerbInAnyCase(token) ==
    /\ Len(token) = 1
    /\ token[1] \in {"GET", "POST", "PUT", "DELETE", "HEAD", "OPTIONS", "PATCH",
                     "CONNECT", "TRACE", "get", "post", "put", "delete", "head",
                     "options", "patch", "connect", "trace"}

\* The error of parseRequestLineFast, as parseRequestInto hands it on.
LineErrorText(words) ==
    Words(<<"request", "line", "error">>) \o <<":", SP>> \o Words(words)

ErrorStartsWith(r, words) ==
    /\ r.st = "err"
    /\ Len(r.err.msg) >= Len(LineErrorText(words))
    /\ SubSeq(r.err.msg, 1, Len(LineErrorText(words))) = LineErrorText(words)

\* C28: the request line is refused as malformed exactly when it has no
\* space, so fewer than two tokens, whatever its first token is; a line of
\* two tokens or more whose first token is none of the nine verbs is refused
\* with the invalid-method error; a line of exactly two tokens that is
\* accepted has the protocol HTTP/1.1.
C28_RequestLineErrors ==
    ParsedLine =>
        /\ ErrorStartsWith(parsing.results[1], <<"malformed", "request", "line">>)
             <=> SpacesOf(parsing.msg.line) = {}
        /\ (SpacesOf(parsing.msg.line) # {}
              /\ ~VerbInAnyCase(FirstToken(parsing.msg.line))) =>
               ErrorStartsWith(parsing.results[1], <<"invalid", "HTTP", "method">>)
        /\ (Cardinality(SpacesOf(parsing.msg.line)) = 1
              /\ VerbInAnyCase(FirstToken(parsing.msg.line))) =>
               /\ parsing.results[1].st = "ok"
               /\ parsing.results[1].req.Proto = <<"HTTP/1.1">>

\* A line of the one token FOO, which is no verb, was refused as malformed.
C28_Witness ==
    /\ ParsedLine
    /\ parsing.msg.line = <<"FOO">>
    /\ ErrorStartsWith(parsing.results[1], <<"malformed", "request", "line">>)

\* ------------------------------------------------------------------------
\* The order of the events on a connection
\* ------------------------------------------------------------------------

\* The events of a connection before its i-th.
Before(log, i) == {log[j] : j \in 1..(i - 1)}

\* C29: on every connection ParseRequest is called right after the read
\* deadline is set; the write deadline is set right after ParseRequest has
\* returned a request, and the route is looked up right after that; the
\* handler chain is entered right after the lookup has found a handler and
\* the handler responds only then; and once the task has closed the
\* connection it neither parses, nor looks up, nor runs a handler, nor
\* writes on it.
C29_EventsInOrder ==
    \A c \in Workers :
        \A i \in 1..Len(wire[c].log) :
            \E ev \in {wire[c].log[i]}, prev \in {IF i = 1 THEN "accept"
                                                  ELSE wire[c].log[i - 1]} :
                /\ ev = "parse" => prev = "readDeadline"
                /\ ev = "parsed" => prev = "parse"
                /\ ev = "writeDeadline" => prev = "parsed"
                /\ ev = "lookup" => prev = "writeDeadline"
                /\ ev = "found" => prev = "lookup"
                /\ ev = "handler" => prev = "found"
                /\ ev = "respond" => "handler" \in Before(wire[c].log, i)
                /\ ev # "close" => "close" \notin Before(wire[c].log, i)

\* A task has gone through all of it: deadline, parse, deadline, lookup,
\* handler, response, and the two Close of the deferred functions.
C29_Witness ==
    \E c \in Workers :
        /\ task[c].pc = "done"
        /\ wire[c].log = <<"readDeadline", "parse", "parsed", "writeDeadline",
                           "lookup", "found", "handler", "respond", "write",
                           "close", "close">>

\* ------------------------------------------------------------------------
\* Shutdown and the keep-alive loop
\* ------------------------------------------------------------------------

\* The steps of the connection task of a worker in the keep-alive loop.
KeepAliveTask(c) ==
    \/ KeepAliveLoop(c)
    \/ ParseRequest(c)
    \/ KeepAliveParseError(c)
    \/ KeepAliveNotFound(c)
    \/ KeepAliveDispatch(c)
    \/ HandlerJSON(c, 200, <<"o", "k">>)
    \/ HandlerPanic(c)
    \/ HandlerReturn(c)
    \/ KeepAliveProcDefer(c)
    \/ KeepAliveRelease(c)
    \/ KeepAliveShouldClose(c)
    \/ KeepAliveClose(c)
    \/ KeepAliveConnDefer(c)

\* The goroutine of a connection task is scheduled as long as it can take a
\* step: nothing in the task waits but ParseRequest, and the read deadline
\* ends that wait.
SpecKeepAliveFair == SpecKeepAlive /\ WF_vars(KeepAliveTask("w1"))

\* C30: a task that comes to the head of its loop after the server context
\* is cancelled closes the connection and does not call the parser; the
\* cancellation changes nothing on a task or its connection, and a task in
\* its handler goes on in the handler or returns from it, the connection
\* open; and every connection that is open when the context is cancelled is
\* closed in the end.
C30_ShutdownClosesKeepAlive ==
    /\ [][\A c \in Workers :
            /\ (serverDone /\ task[c].pc = "loop" /\ task'[c] # task[c]) =>
                  /\ task'[c].pc # "parse"
                  /\ wire'[c].closed
                  /\ wire'[c].log = wire[c].log \o <<"close">>
            /\ serverDone' # serverDone => task' = task /\ wire' = wire
            /\ (task[c].pc = "handler" /\ task'[c] # task[c]) =>
                  /\ task'[c].pc \in {"handler", "procRelease"}
                  /\ ~wire'[c].closed]_vars
    /\ \A n \in 1..MaxKeepAliveConns :
          (serverDone /\ accepted = n /\ ~wire["w1"].closed)
             ~> (accepted = n /\ wire["w1"].closed)

\* ------------------------------------------------------------------------
\* The keep-alive loop: the end of a connection between requests
\* ------------------------------------------------------------------------

\* The error of ParseRequest when the read of the request line found the
\* connection ended or the read deadline passed, nothing of a request read.
WaitingReadFailed(err) ==
    err \in { wrapError(Words(<<"request", "line", "error">>), ioEOF),
              wrapError(Words(<<"request", "line", "error">>), netTimeout) }

\* C31: when a connection that has served a request ends, or its read
\* deadline passes, while the task waits for the next request, the task
\* writes nothing to the connection.
C31_QuietCloseAfterServed ==
    [][\A c \in Workers :
          (/\ task[c].pc = "parseError"
           /\ task[c].served >= 1
           /\ WaitingReadFailed(task[c].err)
           /\ task'[c].pc # "parseError") =>
              /\ wire'[c].sent = wire[c].sent
              /\ wire'[c].log = wire[c].log]_vars

\* ------------------------------------------------------------------------
\* The connection task on a server with global middleware
\* ------------------------------------------------------------------------
\* handleConnectionFast and processRequestFast of http_server.go, the
\* handler that findRouteHandler returns being the route's handler inside
\* the middlewares registered with Use. The requests are GET requests
\* without an Authorization header.

ChainNames == {"Recovery", "CORS", "Timeout"}

\* Number of connections the server with middleware accepts over a run.
MaxChainConns == 2

ChainInputs == { <<M_get, "EOF">>, <<M_notFound, "EOF">> }

InChain(name) == \E i \in 1..Len(pipeline.chain) : pipeline.chain[i] = name

HdrAllowOrigin == <<"Access-Control-Allow-Origin">>
HdrAllowMethods == <<"Access-Control-Allow-Methods">>
HdrAllowHeaders == <<"Access-Control-Allow-Headers">>

\* CORS up to next(c), for a request that is not OPTIONS.
corsHeaders(w) ==
    SetHeader(
      SetHeader(SetHeader(w, HdrAllowOrigin, <<"*">>), HdrAllowMethods,
                <<"GET,", SP, "POST,", SP, "PUT,", SP, "DELETE,", SP, "OPTIONS">>),
      HdrAllowHeaders, <<"Content-Type,", SP, "Authorization">>)

ChainUnchanged ==
    UNCHANGED <<serverDone, antsPool, acceptLoop, shutdownCall, conns, parsing>>

\* The server accepts a connection and a worker starts handleConnectionFast
\* on it.
ChainAccept(c, stream, end) ==
    /\ accepted < MaxChainConns
    /\ Accept(c, stream, end)

\* processRequestFast from the route lookup on, and in findRouteHandler
\* the copy of the slice header s.middlewares under the read lock.
ChainDispatch(c) ==
    /\ DispatchTo(c, TRUE)
    /\ pipeline' = [pipeline EXCEPT
                      !.snapshot = [len |-> Len(pipeline.middlewares),
                                    seen |-> pipeline.middlewares,
                                    grown |-> FALSE],
                      !.chain = <<>>,
                      !.stage = "snapshot"]
    /\ ChainUnchanged

\* findRouteHandler after the lock is released: the loop reads the elements
\* under the copied header from the array they are in and wraps the handler.
ChainWrap(c) ==
    /\ task[c].pc = "handler"
    /\ pipeline.stage = "snapshot"
    /\ pipeline' = [pipeline EXCEPT
                      !.chain = findRouteHandler(
                                   SubSeq(pipeline.middlewares, 1,
                                          pipeline.snapshot.len),
                                   <<"handler">>),
                      !.snapshot.grown =
                         Len(pipeline.middlewares) > pipeline.snapshot.len,
                      !.stage = "resolved"]
    /\ ChainUnchanged
    /\ UNCHANGED <<routerVars, connVars>>

\* ctx.Next() enters the chain: each middleware runs up to its next(c).
ChainEnter(c) ==
    /\ task[c].pc = "handler"
    /\ pipeline.stage = "resolved"
    /\ writers' = [writers EXCEPT ![task[c].writer] =
                     IF InChain("CORS") THEN corsHeaders(@) ELSE @]
    /\ pipeline' = [pipeline EXCEPT !.stage = "entered"]
    /\ ChainUnchanged
    /\ UNCHANGED <<task, wire, requestPool, contextPool, responseWriterPool,
                   requests, contexts, accepted, carried>>
    /\ UNCHANGED routerVars

\* The handler calls ctx.JSON(200, data).
ChainJSON(c) ==
    /\ pipeline.stage = "entered"
    /\ HandlerJSON(c, 200, <<"o", "k">>)

\* The handler returns, and the middlewares around it.
ChainReturn(c) ==
    /\ pipeline.stage = "entered"
    /\ HandlerReturn(c)

InternalServerError == Words(<<"Internal", "Server", "Error">>)

\* The handler panics. The deferred function of Recovery, where it is in
\* the chain, recovers and answers 500 on the writer of the request;
\* otherwise the stack unwinds to the deferred functions of
\* processRequestFast. (A handler under Timeout runs in a goroutine of its
\* own; the handlers of this specification do not panic there.)
ChainPanic(c) ==
    /\ task[c].pc = "handler"
    /\ pipeline.stage = "entered"
    /\ ~InChain("Timeout")
    /\ IF InChain("Recovery")
       THEN \E out \in { JSON(Status(writers[task[c].writer], 500),
                              errorBody(500, InternalServerError)) } :
              /\ writers' = [writers EXCEPT ![task[c].writer] = out.w]
              /\ wire' = [wire EXCEPT ![c] = connWrite(@, out.msg)]
              /\ task' = [task EXCEPT ![c] = [@ EXCEPT !.pc = "procRelease",
                                                       !.handlerPanicked = TRUE]]
       ELSE /\ task' = [task EXCEPT ![c] = [@ EXCEPT !.pc = "procRelease",
                                                     !.panicking = TRUE,
                                                     !.handlerPanicked = TRUE]]
            /\ UNCHANGED <<writers, wire>>
    /\ UNCHANGED <<requestPool, contextPool, responseWriterPool, requests,
                   contexts, accepted, carried>>
    /\ UNCHANGED <<routerVars, srvVars>>

\* Timeout: time.After fires before the goroutine that runs next(c) is
\* done. The middleware answers 503 and returns, and ctx.Next() and the
\* chain with it; the goroutine goes on with the Context it was given.
TimeoutFires(c) ==
    /\ task[c].pc = "handler"
    /\ pipeline.stage = "entered"
    /\ InChain("Timeout")
    /\ ~pipeline.handlerGo.live
    /\ \E out \in { JSON(Status(writers[task[c].writer], 503),
                         errorBody(503, Words(<<"Request", "timeout">>))) } :
          /\ writers' = [writers EXCEPT ![task[c].writer] = out.w]
          /\ wire' = [wire EXCEPT ![c] = connWrite(@, out.msg)]
    /\ task' = [task EXCEPT ![c].pc = "procRelease"]
    /\ pipeline' = [pipeline EXCEPT
                      !.handlerGo = [live |-> TRUE, ctx |-> task[c].ctx,
                                     ops |-> task[c].ops, used |-> "none"]]
    /\ ChainUnchanged
    /\ UNCHANGED <<requestPool, contextPool, responseWriterPool, requests,
                   contexts, accepted, carried>>
    /\ UNCHANGED routerVars

\* The goroutine of the handler calls c.JSON(200, data) on its Context:
\* through c.Writer, which is the writer of the request until the Context is
\* reset, nil after that (the call panics in the goroutine), and the writer
\* of a later request once the Context has been taken from the pool again.
GoJSON(c) ==
    /\ pipeline.handlerGo.live
    /\ pipeline.handlerGo.ops < MaxHandlerOps
    /\ \E x \in {pipeline.handlerGo.ctx} :
       \E own \in {task[c].pc = "procRelease" /\ task[c].ctx = x} :
         IF contexts[x].Writer = Nil
         THEN /\ pipeline' = [pipeline EXCEPT !.handlerGo.live = FALSE,
                                              !.handlerGo.used = "released"]
              /\ UNCHANGED <<writers, wire>>
         ELSE \E out \in { JSON(Status(writers[contexts[x].Writer], 200),
                                <<"o", "k">>) } :
                /\ writers' = [writers EXCEPT ![contexts[x].Writer] = out.w]
                /\ wire' = [wire EXCEPT ![c] = connWrite(@, out.msg)]
                /\ pipeline' = [pipeline EXCEPT
                                  !.handlerGo.ops = @ + 1,
                                  !.handlerGo.used =
                                     IF own THEN "late" ELSE "released"]
    /\ ChainUnchanged
    /\ UNCHANGED <<task, requestPool, contextPool, responseWriterPool,
                   requests, contexts, accepted, carried>>
    /\ UNCHANGED routerVars

\* The goroutine of the handler is done: done <- true, which nobody reads.
GoReturn(c) ==
    /\ pipeline.handlerGo.live
    /\ pipeline' = [pipeline EXCEPT !.handlerGo.live = FALSE]
    /\ ChainUnchanged
    /\ UNCHANGED <<routerVars, connVars>>

NextChain ==
    \/ \E m \in ChainNames : Use(m)
    \/ \E in \in ChainInputs : ChainAccept("w1", in[1], in[2])
    \/ ParseRequest("w1")
    \/ DispatchNotFound("w1")
    \/ ChainDispatch("w1")
    \/ ChainWrap("w1")
    \/ ChainEnter("w1")
    \/ ChainJSON("w1")
    \/ ChainPanic("w1")
    \/ ChainReturn("w1")
    \/ TimeoutFires("w1")
    \/ GoJSON("w1")
    \/ GoReturn("w1")
    \/ ProcRelease("w1")
    \/ ProcClose("w1")
    \/ Release("w1")
    \/ ConnDefer("w1")

SpecChain == ServerInit /\ [][NextChain]_vars

\* C32: when the handler has written a response and the chain panics after
\* it, no 500 response follows on the connection.
C32_NoSecondResponseOnPanic ==
    \A c \in Workers :
        task[c].handlerPanicked =>
            \A i \in 2..Len(wire[c].sent) : wire[c].sent[i].status # 500

\* C33: the goroutine in which Timeout runs the handler does not write to
\* the connection once the middleware has answered 503 and returned, and
\* does not use the Context or the ResponseWriter once processRequestFast
\* has reset them and put them back.
C33_NothingUsedAfterTimeout == pipeline.handlerGo.used = "none"

\* C34: the chain of a request is the handler inside the middlewares as
\* they were when findRouteHandler read the list, whatever Use adds while
\* the chain is built or after it.
C34_ChainFromOneList ==
    pipeline.stage \in {"resolved", "entered"} =>
        pipeline.chain = pipeline.snapshot.seen \o <<"handler">>

\* A chain of one middleware was built after Use had added a second to the
\* list, and the request has entered it.
C34_Witness ==
    /\ pipeline.stage = "entered"
    /\ pipeline.snapshot.grown
    /\ Len(pipeline.chain) = 2
    /\ Len(pipeline.middlewares) = 2

\* ------------------------------------------------------------------------
\* The keep-alive loop and the Connection header of its responses
\* ------------------------------------------------------------------------

\* A response with Connection: close has been written to the connection.
SentClose(c) ==
    \E i \in 1..Len(wire[c].sent) :
        GetHeader(wire[c].sent[i].header, HdrConnection) = <<"close">>

\* C35: once a response with Connection: close is written to a connection
\* the task does not call ParseRequest on it again, and the connection is
\* closed when the task has returned.
C35_ConnectionHeaderIsObeyed ==
    [][\A c \in Workers :
          /\ (task[c].pc = "parse" /\ task'[c].pc # "parse") => ~SentClose(c)
          /\ (task'[c].pc = "done" /\ SentClose(c)) => wire'[c].closed]_vars

\* ------------------------------------------------------------------------
\* The route cache and the route list
\* ------------------------------------------------------------------------

\* The path of a cache key method:path.
PathOfKey(key) == SubSeq(key, 3, Len(key))

\* C36: every entry of the cache holds the handler and the params that a
\* scan of the route list of its method, as the list is now, returns for its
\* path.
C36_CacheAgreesWithRouteList ==
    \A e \in routeCache :
        /\ e.key[1] = e.method
        /\ e.method \in DOMAIN routes
        /\ [handler |-> e.handler, params |-> e.params]
              = scanRoutes(routes[e.method], PathOfKey(e.key))

\* The cache holds an entry computed from a route list that has grown
\* since, and a second route of the list matches its path.
C36_Witness ==
    \E e \in routeCache :
        /\ e.ver < Len(routes[e.method])
        /\ Cardinality({ i \in 1..Len(routes[e.method]) :
                           matchFast(routes[e.method][i],
                                     splitPathFast(PathOfKey(e.key))).ok }) >= 2

\* C37: on a server whose handlers and middlewares never set Content-Length,
\* every response on a connection states the length of its own body, the
\* second response of a request as well as the first.
C37_LengthIsOfItsOwnBody ==
    \A c \in Workers :
        \A i \in 1..Len(wire[c].sent) :
            GetHeader(wire[c].sent[i].header, HdrContentLength)
               = Itoa(Len(wire[c].sent[i].body))

\* ------------------------------------------------------------------------
\* The pools: who holds a pooled object

\* What lies in the three pools, as the tasks name what they have taken.
Pooled ==
    ({"req"} \X requestPool) \cup ({"ctx"} \X contextPool)
        \cup ({"writer"} \X responseWriterPool)

\* The goroutine Timeout started for the handler still has the Context.
GoroutineHolds(x) == pipeline.handlerGo.live /\ pipeline.handlerGo.ctx = x

\* C38: no pooled object is held by two parties at the same time: what a
\* running task has taken is in no pool and in no other task's hands, and a
\* Context a handler goroutine still has is held by no task but the one
\* whose Timeout started the goroutine and has not released it yet.
C38_NoObjectHeldTwice ==
    /\ \A c \in Workers : Active(c) => task[c].taken \cap Pooled = {}
    /\ \A c, d \in Workers :
          c # d /\ Active(c) /\ Active(d)
              => task[c].taken \cap task[d].taken = {}
    /\ \A c \in Workers : \A x \in CtxIds :
          GoroutineHolds(x) /\ Active(c) /\ <<"ctx", x>> \in task[c].taken
              => task[c].pc = "procRelease"

\* ------------------------------------------------------------------------
\* Middleware and the request without a route

MiddlewareRegistered(name) ==
    \E i \in 1..Len(pipeline.middlewares) : pipeline.middlewares[i] = name

\* C39: the step that finds no route for a request touches nothing of the
\* middleware chain and no Context, and the response it sends is the 404 of
\* sendErrorFast, with the headers of sendErrorFast and no others.
C39_NoMiddlewareWithoutRoute ==
    [][\A c \in Workers :
          ~task[c].notFound /\ task'[c].notFound =>
              /\ pipeline' = pipeline
              /\ contexts' = contexts
              /\ task'[c].ctx = Nil
              /\ Len(wire'[c].sent) = Len(wire[c].sent) + 1
              /\ wire'[c].sent[Len(wire'[c].sent)].status = 404
              /\ DOMAIN wire'[c].sent[Len(wire'[c].sent)].header
                    = ErrorHeaderKeys]_vars

\* A 404 on a server with CORS registered, after an earlier request went
\* through the chain.
C39_Witness ==
    /\ task["w1"].notFound
    /\ MiddlewareRegistered("CORS")
    /\ pipeline.stage = "entered"
    /\ wire["w1"].sent # <<>>
    /\ wire["w1"].sent[Len(wire["w1"].sent)].status = 404

\* ------------------------------------------------------------------------
\* The letter case of the method, from the request line to the route table
\* ------------------------------------------------------------------------
\* The connection task of http_server.go on the server of ServerInit, whose
\* routes are registered through GET(), with clients that write the method
\* in either letter case.

M_getLower == RequestLine("get", P_a_b) \o HeaderLine("Host", <<"h">>) \o CRLF
M_postLower == RequestLine("post", P_a_b) \o CRLF

MethodInputs ==
    { <<M_get, "EOF">>, <<M_getLower, "EOF">>, <<M_postLower, "EOF">>,
      <<M_notFound, "EOF">>, <<M_badMethod, "EOF">> }

NextMethod ==
    \/ \E in \in MethodInputs : Accept("w1", in[1], in[2])
    \/ ParseRequest("w1")
    \/ HandleParseError("w1")
    \/ DispatchNotFound("w1")
    \/ Dispatch("w1")
    \/ HandlerSet("w1", "k", "v")
    \/ HandlerSetHeader("w1", <<"X-A">>, <<"1">>)
    \/ HandlerJSON("w1", 200, <<"o", "k">>)
    \/ HandlerPanic("w1")
    \/ HandlerReturn("w1")
    \/ ProcRelease("w1")
    \/ ProcClose("w1")
    \/ Release("w1")
    \/ ConnDefer("w1")

SpecMethod == ServerInit /\ [][NextMethod]_vars

\* The method token the client wrote on the connection.
MethodSent(c) == <<Head(task[c].input)>>

Happened(c, event) ==
    \E i \in 1..Len(wire[c].log) : wire[c].log[i] = event

\* The method strings some route is registered under.
RegisteredMethods == {m \in DOMAIN routes : routes[m] # <<>>}

\* C40: a request line whose method is one of the nine verbs in either
\* letter case is accepted; the request holds the method as the client wrote
\* it; and a handler is found only for a method token that is, letter for
\* letter, a method some route is registered under, so that a request
\* accepted with "get" is answered 404 on a server whose routes are under
\* "GET".
C40_MethodIsMatchedAsWritten ==
    \A c \in Workers :
        (Active(c) /\ task[c].input # <<>>) =>
            /\ (Happened(c, "parse") /\ ToUpper(MethodSent(c)) \in Verbs)
                  => Happened(c, "parsed")
            /\ (Happened(c, "parsed") /\ <<"req", task[c].req>> \in task[c].taken)
                  => requests[task[c].req].Method = MethodSent(c)
            /\ Happened(c, "found")
                  => MethodSent(c)[1] \in RegisteredMethods
            /\ (Happened(c, "lookup") /\ MethodSent(c)[1] \notin RegisteredMethods)
                  => /\ task[c].notFound
                     /\ wire[c].sent # <<>>
                     /\ wire[c].sent[1].status = 404

\* A request with method "get" was accepted and answered 404 although
\* GET /a/b is registered.
C40_Witness ==
    /\ task["w1"].input = M_getLower
    /\ Happened("w1", "parsed")
    /\ task["w1"].notFound
    /\ wire["w1"].sent # <<>>
    /\ wire["w1"].sent[1].status = 404
    /\ scanRoutes(routes["GET"], P_a_b).handler # NilHandler

============================================================================
